---- MODULE Spec2Model ----
(***************************************************************************)
(* One session of MenuProcessor.processMenuAsync                           *)
(* (backend/src/services/menuProcessor.ts) together with the retry         *)
(* wrappers it drives: LLMService.retryTranslation and                     *)
(* ImageGenService.generateWithFallback / generateFoodImage.               *)
(*                                                                         *)
(* An action is one run of the event loop: from the resumption of an       *)
(* awaited promise to the next await.  The external engines (text          *)
(* extraction, translation, image synthesis) answer nondeterministically.  *)
(* `events` is the sequence of events handed to the progress emitter for   *)
(* the session's room, in emission order.                                  *)
(*                                                                         *)
(* ImageCacheService (its two tiers, getCachedImage, setCachedImage) is    *)
(* modelled on its own under SpecCache, and its pure functions             *)
(* generateCacheKey and getFallbackImage under SpecFn.                     *)
(***************************************************************************)
EXTENDS Naturals, Integers, Sequences, FiniteSets, TLC

VARIABLES
    pc,              \* position of processMenuAsync
    events,          \* events emitted for the session, in order
    generateImages,  \* request.generateImages
    ocrText,         \* length of ocrResult.text (0 before extraction returns)
    attempt,         \* retryTranslation: loop variable `attempt`
    menu,            \* llmResult.translatedMenu: sequence of item names
    i,               \* batch loop variable `i` (0-based start of the batch)
    processedCount,  \* batch loop counter `processedCount`
    wpc,             \* per item: position of its batch worker
    wattempt,        \* per item: generateWithFallback loop variable `attempt`
    wread,           \* per item: entry its getCachedImage call read from the store
    lookupQueue,     \* workers whose cache store read is pending, in issue order
    results,         \* per item: value its worker's promise resolved with
    imageCache,      \* image cache: item name -> live cached image reference
    ocrCalls,        \* number of ocrService.extractText calls
    llmCalls,        \* number of llmService.translateMenu calls
    engineCalls,     \* per item: number of openai.images.generate calls
    workerCalls,     \* per item: number of invocations of the batch worker
    llmFailures,     \* number of translateMenu calls that threw
    engineFails,     \* per item: number of openai.images.generate calls that failed
    resultCount,     \* per item: number of values its worker has returned
    lastError,       \* retryTranslation: local `lastError` (0: null)
    wlive,           \* per item: answer of the liveness probe of its current lookup
    hasFile,         \* POST /api/translate: the request carries an image file
    response,        \* the HTTP response sent, and how many events were emitted before it
    handlerPc,       \* position of the POST /api/translate handler
    promise,         \* state of the promise returned by processMenuAsync
    connected,       \* the subscriber's socket is in the session's room
    delivered,       \* events the subscriber has received, in order
    timers,          \* the delays (ms) of the timers the session has armed, per loop
    batches,         \* the batches the batch loop has formed, as sets of item indices
    gen,             \* the generateWithFallback call made on the two-tier cache
    redisStore,      \* ImageCacheService: the keys of the Redis server
    memoryCache,     \* ImageCacheService.memoryCache
    isRedisConnected,\* ImageCacheService.isRedisConnected
    now,             \* the clock, in ticks
    urlExpired,      \* the synthesis engine's image reference is no longer served
    calls,           \* per caller: its getCachedImage / setCachedImage call
    lastGetFoundDead,\* the last finished cache call was a get that met a dead durable entry
    lastPut,         \* per key: the last completed setCachedImage, and whether a get evicted since
    fnCall,          \* pure functions: the function applied and its arguments
    fnResult         \* pure functions: the values returned (<<>> before the call)

sessionVars == <<pc, events, generateImages, ocrText, attempt, menu, i, processedCount,
          wpc, wattempt, results, imageCache, ocrCalls, llmCalls, engineCalls,
          workerCalls, llmFailures, engineFails, resultCount, wread, lookupQueue,
          lastError, wlive, hasFile, response, handlerPc, promise, connected, delivered,
          timers, batches>>
pipelineVars == <<sessionVars, gen>>
cacheVars == <<redisStore, memoryCache, isRedisConnected, now, urlExpired, calls,
               lastGetFoundDead, lastPut>>
fnVars == <<fnCall, fnResult>>
vars == <<pipelineVars, cacheVars, fnVars>>

-----------------------------------------------------------------------------
(* Bounds of the model *)

MaxItems == 3

(* Program constants *)

MinTextLength == 10
BATCH_SIZE_Wide == 2 + 1
BATCH_SIZE == 2
TranslationMaxRetries_Short == 3 - 1
TranslationMaxRetries == 3
ImageMaxRetries_Three == 2 + 1
ImageMaxRetries == 2

Names == {"pad thai", "chicken tikka"}
Items == 1..MaxItems

RECURSIVE SeqsUpTo(_, _)
SeqsUpTo(S, n) ==
    IF n = 0 THEN {<<>>}
    ELSE LET shorter == SeqsUpTo(S, n - 1)
         IN  shorter \cup {Append(s, x) : s \in {t \in shorter : Len(t) = n - 1}, x \in S}

Menus == SeqsUpTo(Names, MaxItems)

-----------------------------------------------------------------------------
(* Image references and events *)

NoUrl == [kind |-> "none", name |-> "none"]
CachedUrl(name) == [kind |-> "cached", name |-> name]
StockUrl(keyword) == [kind |-> "stock", name |-> keyword]
GeneratedUrl(name) == [kind |-> "generated", name |-> name]
PlaceholderUrl(name) == [kind |-> "placeholder", name |-> name]

Evt(type) ==
    [type |-> type, step |-> "none", item |-> 0, cur |-> 0, pct |-> 0,
     n |-> 0, url |-> NoUrl, fallback |-> FALSE, error |-> 0, imageGenTime |-> 0]

\* Math.round(x / y * 100) for 0 <= x, 0 < y
Percentage(x, y) == (200 * x + y) \div (2 * y)

\* a {stage}_progress event: the payload built at the call site; the event names
\* are those of WebSocketEvents (ocr_progress, translation_progress,
\* image_generation_progress)
ProgressEvt(type, step, item, cur, total) ==
    [Evt(type) EXCEPT !.step = step, !.item = item, !.cur = cur,
                      !.pct = Percentage(cur, total), !.n = total]

-----------------------------------------------------------------------------
(* The HTTP layer and the progress emitter *)

\* the HTTP response of POST /api/translate: its status (0: none sent) and the
\* number of the session's events emitted before it was sent
NoResponse == [status |-> 0, sentAfter |-> 0]
Response(status, n) == [status |-> status, sentAfter |-> n]

\* part_004:157-171: res.status(202).json(...) is called before processMenuAsync
AckPosition_AfterCall(before, started) == Len(before) + Len(started)
AckPosition(before, started) == Len(before)

\* part_004:165: the call of processMenuAsync is not awaited, the handler returns
HandlerAfterCall == "returned"

\* the catch blocks of processMenuAsync emit their error event and do not rethrow:
\* the function runs to its end and the promise resolves
AfterCatch_Rethrow(stage) == "rejected"
AfterCatch(stage) == "resolved"

\* io.to(socketId).emit(...): the events just emitted reach the sockets that are
\* in the room at that moment; nothing is buffered for a socket that has left
Deliver_Buffered ==
    delivered' = delivered \o SubSeq(events', Len(events) + 1, Len(events'))
Deliver ==
    delivered' = delivered \o
                    (IF connected THEN SubSeq(events', Len(events) + 1, Len(events')) ELSE <<>>)

\* processMenuAsync up to the await of extractText
StartEvents ==
    << Evt("ocr_started"), [Evt("ocr_progress") EXCEPT !.step = "reading_image"] >>

-----------------------------------------------------------------------------
(* ocrService.extractText: throws (invalid image, recognition failure, empty
   text) or returns the trimmed text, which is then never empty.  The text
   lengths tried are the shortest text and the two lengths around the gate. *)
\* the timers armed so far: none
NoTimers == [pacing |-> <<>>, backoff |-> <<>>, retry |-> [w \in Items |-> <<>>]]

\* Math.pow(2, attempt)
RECURSIVE Pow2(_)
Pow2(n) == IF n = 0 THEN 1 ELSE 2 * Pow2(n - 1)

\* menuProcessor.ts:164  setTimeout(resolve, 500)
PacingDelayMs == 500
\* llmService.ts:363  const delay = Math.pow(2, attempt) * 1000
BackoffDelay_ZeroIndexed(a) == Pow2(a - 1) * 1000
BackoffDelay(a) == Pow2(a) * 1000
\* imageGenService.ts:238  const delay = attempt * 2000
RetryDelay(a) == a * 2000

TextLengths == {1, MinTextLength - 1, MinTextLength}
OcrOutcomes ==
    {[ok |-> FALSE, len |-> 0]} \cup {[ok |-> TRUE, len |-> l] : l \in TextLengths}

(* llmService.translateMenu: throws or returns the translated menu. *)
LlmOutcomes ==
    {[ok |-> FALSE, menu |-> <<>>]} \cup {[ok |-> TRUE, menu |-> m] : m \in Menus}

\* the Error thrown by the k-th translateMenu call of the session; every call's
\* error is a different object with its own message, named here by k (0: none)
ErrorOfCall(k) == k

\* retryTranslation's catch: lastError = error
LastErrorAfter_KeepFirst(prev, err) == IF prev = 0 THEN err ELSE prev
LastErrorAfter(prev, err) == err

\* menuProcessor.ts:44  !ocrResult.text || ocrResult.text.length < 10
TextTooShort_Off(len) == len = 0
TextTooShort(len) == len = 0 \/ len < MinTextLength

\* events of the translation stage up to the await of retryTranslation
TranslationStartEvents ==
    << Evt("translation_started"),
       [Evt("translation_progress") EXCEPT !.step = "analyzing_menu"],
       [Evt("translation_progress") EXCEPT !.step = "translating_content"] >>

\* the catch (ocrError) block
OcrErrorEvents == << [Evt("ocr_error") EXCEPT !.step = "ocr"] >>

\* the catch (translationError) block: emits translationError.message and does
\* not rethrow
TranslationErrorEvents_Rethrow(err) ==
    << [Evt("translation_error") EXCEPT !.step = "translation", !.error = err] >>
    \o OcrErrorEvents
TranslationErrorEvents_FallThrough(err) ==
    << [Evt("translation_error") EXCEPT !.step = "translation", !.error = err],
       Evt("processing_complete") >>
TranslationErrorEvents(err) ==
    << [Evt("translation_error") EXCEPT !.step = "translation", !.error = err] >>

\* what the run resumed by extractText emits
AfterOcr_Early(r) ==
    IF ~r.ok THEN OcrErrorEvents
    ELSE IF TextTooShort(r.len)
         THEN << [Evt("ocr_complete") EXCEPT !.n = r.len] >> \o OcrErrorEvents
         ELSE TranslationStartEvents \o << [Evt("ocr_complete") EXCEPT !.n = r.len] >>
AfterOcr(r) ==
    IF ~r.ok THEN OcrErrorEvents
    ELSE << [Evt("ocr_complete") EXCEPT !.n = r.len] >> \o
         IF TextTooShort(r.len) THEN OcrErrorEvents ELSE TranslationStartEvents

\* does the run resumed by extractText go on to call retryTranslation
OcrProceeds(r) == r.ok /\ ~TextTooShort(r.len)

-----------------------------------------------------------------------------
(* The batch loop of the synthesis stage *)

\* menuProcessor.ts:76
SynthesisRequested_IgnoreFlag(m) == Len(m) > 0
SynthesisRequested(m) == generateImages /\ Len(m) > 0

\* batch = translatedMenu.slice(i, i + BATCH_SIZE), as 1-based item indices
BatchOf_Overlap(m, i0) == {w \in 1..Len(m) : i0 < w /\ w <= i0 + BATCH_SIZE + 1}
BatchOf(m, i0) == {w \in 1..Len(m) : i0 < w /\ w <= i0 + BATCH_SIZE}

\* menuProcessor.ts:163  i + BATCH_SIZE < translatedMenu.length
MoreBatches_OffByOne(m, i0) == i0 + BATCH_SIZE + 1 < Len(m)
MoreBatches(m, i0) == i0 + BATCH_SIZE < Len(m)

NoResult ==
    [success |-> FALSE, item |-> 0, url |-> NoUrl, cur |-> 0, pct |-> 0, fallback |-> FALSE]

\* the worker's return value: try branch (lines 119-133), catch branch (134-152)
WorkerResult(m, w, outcome, count) ==
    IF outcome.threw
    THEN [success |-> FALSE, item |-> w, url |-> PlaceholderUrl(m[w]), cur |-> count,
          pct |-> Percentage(count, Len(m)), fallback |-> TRUE]
    ELSE [success |-> TRUE, item |-> w, url |-> outcome.url, cur |-> count,
          pct |-> Percentage(count, Len(m)), fallback |-> FALSE]

\* the synchronous head of every worker of a batch: its generating_image event
BatchStartEvents(m, i0, count) ==
    [k \in 1..Cardinality(BatchOf(m, i0)) |->
        ProgressEvt("image_generation_progress", "generating_image", i0 + k, count, Len(m))]

\* batchResults.forEach(result => emitImageGenerated(socketId, result.data))
ImageGeneratedEvt_ErrorOnPlaceholder(m, r) ==
    IF r.url.kind = "placeholder"
    THEN [Evt("image_generation_error") EXCEPT !.step = "image_generation", !.item = r.item]
    ELSE [Evt("image_generated") EXCEPT !.item = r.item, !.cur = r.cur, !.pct = r.pct,
                                        !.n = Len(m), !.url = r.url, !.fallback = r.fallback]
ImageGeneratedEvt(m, r) ==
    [Evt("image_generated") EXCEPT !.item = r.item, !.cur = r.cur, !.pct = r.pct,
                                   !.n = Len(m), !.url = r.url, !.fallback = r.fallback]

BatchResultEvents_CompletionOrder(m, i0, rs) ==
    [k \in 1..Cardinality(BatchOf(m, i0)) |->
        ImageGeneratedEvt(m, rs[CHOOSE w \in BatchOf(m, i0) :
                                   Cardinality({v \in BatchOf(m, i0) : rs[v].cur <= rs[w].cur}) = k])]
BatchResultEvents_DropLast(m, i0, rs) ==
    [k \in 1..(Cardinality(BatchOf(m, i0)) - 1) |-> ImageGeneratedEvt(m, rs[i0 + k])]
BatchResultEvents(m, i0, rs) ==
    [k \in 1..Cardinality(BatchOf(m, i0)) |-> ImageGeneratedEvt(m, rs[i0 + k])]

\* menuProcessor.ts:168  imageGenTime = Date.now() - imageGenStartTime, assigned in
\* the synthesis branch only: the time of the pacing delays awaited, the least the
\* loop can take; outside the branch the variable keeps its initial 0
ImageGenTime(m) == IF SynthesisRequested(m) THEN PacingDelayMs * Len(timers.pacing) ELSE 0

ProcessingCompleteEvents_ThenProgress(m) ==
    << [Evt("processing_complete") EXCEPT !.n = Len(m), !.imageGenTime = ImageGenTime(m)],
       ProgressEvt("image_generation_progress", "generating_image", 0, Len(m), Len(m) + 1) >>
ProcessingCompleteEvents(m) ==
    << [Evt("processing_complete") EXCEPT !.n = Len(m), !.imageGenTime = ImageGenTime(m)] >>

\* events from the start of the synthesis stage to the first await of the loop
SynthesisStartEvents(m) ==
    << Evt("image_generation_started"),
       ProgressEvt("image_generation_progress", "preparing_generation", 0, 0, Len(m)) >>
    \o BatchStartEvents(m, 0, 0)

\* what the run resumed by a successful retryTranslation emits
AfterTranslation(m) ==
    << [Evt("translation_complete") EXCEPT !.n = Len(m)] >> \o
    IF SynthesisRequested(m) THEN SynthesisStartEvents(m) ELSE ProcessingCompleteEvents(m)

-----------------------------------------------------------------------------
(* Strings are sequences of one-character strings.  The operators below are the
   String methods used by ImageCacheService, on such sequences. *)

LowerOf ==
    [A |-> "a", B |-> "b", C |-> "c", D |-> "d", E |-> "e", F |-> "f", G |-> "g", H |-> "h", I |-> "i", J |-> "j", K |-> "k", L |-> "l", M |-> "m",
     N |-> "n", O |-> "o", P |-> "p", Q |-> "q", R |-> "r", S |-> "s", T |-> "t", U |-> "u", V |-> "v", W |-> "w", X |-> "x", Y |-> "y", Z |-> "z"]

\* String.prototype.toLowerCase
toLowerCase(s) ==
    [k \in 1..Len(s) |-> IF s[k] \in DOMAIN LowerOf THEN LowerOf[s[k]] ELSE s[k]]

LowerLetters == {LowerOf[c] : c \in DOMAIN LowerOf}
Digits == {"0", "1", "2", "3", "4", "5", "6", "7", "8", "9"}
\* the characters matched by \s that the model's names use
Whitespace == {" ", "\t", "\n"}

\* .replace(/[^a-z0-9\s]/g, '')
KeptChar(c) == c \in LowerLetters \cup Digits \cup Whitespace
RemoveSpecial(s) == SelectSeq(s, KeptChar)

RECURSIVE SkipWhitespace(_)
SkipWhitespace(s) ==
    IF s # <<>> /\ Head(s) \in Whitespace THEN SkipWhitespace(Tail(s)) ELSE s

\* .replace(/\s+/g, ' ')
RECURSIVE CollapseWhitespace(_)
CollapseWhitespace(s) ==
    IF s = <<>> THEN <<>>
    ELSE IF Head(s) \in Whitespace
         THEN <<" ">> \o CollapseWhitespace(SkipWhitespace(s))
         ELSE <<Head(s)>> \o CollapseWhitespace(Tail(s))

RECURSIVE TrimEnd(_)
TrimEnd(s) ==
    IF s # <<>> /\ s[Len(s)] \in Whitespace THEN TrimEnd(SubSeq(s, 1, Len(s) - 1)) ELSE s

\* String.prototype.trim
Trim(s) == TrimEnd(SkipWhitespace(s))

\* String.prototype.includes
Includes(s, t) == \E k \in 0..(Len(s) - Len(t)) : SubSeq(s, k + 1, k + Len(t)) = t

\* crypto.createHash('md5').update(s).digest('hex'): the digest is a function of
\* s alone; it is kept symbolic, different inputs giving different digests
Md5Hex(s) == [md5 |-> s]

\* ImageCacheService.generateCacheKey
generateCacheKey_WithDescription(name, description) ==
    [prefix |-> "img:",
     digest |-> Md5Hex(Trim(CollapseWhitespace(RemoveSpecial(toLowerCase(name \o description)))))]
generateCacheKey(name, description) ==
    [prefix |-> "img:",
     digest |-> Md5Hex(Trim(CollapseWhitespace(RemoveSpecial(toLowerCase(name)))))]

\* ImageCacheService.commonFoodImages, in insertion order
commonFoodImages ==
    << [keyword |-> <<"c", "h", "i", "l", "i", " ", "c", "h", "i", "c", "k", "e", "n">>,
        image |-> "https://images.unsplash.com/photo-1606491956689-2ea866880c84?w=400"],
       [keyword |-> <<"c", "h", "i", "c", "k", "e", "n", " ", "6", "5">>,
        image |-> "https://images.unsplash.com/photo-1599487488170-d11ec9c172f0?w=400"],
       [keyword |-> <<"c", "h", "i", "c", "k", "e", "n", " ", "c", "h", "o", "i", "l", "a">>,
        image |-> "https://images.unsplash.com/photo-1567620905732-2d1ec7ab7445?w=400"],
       [keyword |-> <<"c", "h", "i", "c", "k", "e", "n", " ", "t", "i", "k", "k", "a">>,
        image |-> "https://images.unsplash.com/photo-1565557623262-b51c2513a641?w=400"],
       [keyword |-> <<"c", "h", "i", "c", "k", "e", "n", " ", "c", "u", "r", "r", "y">>,
        image |-> "https://images.unsplash.com/photo-1565299624946-b28f40a0ca4b?w=400"],
       [keyword |-> <<"c", "h", "i", "c", "k", "e", "n", " ", "b", "i", "r", "y", "a", "n", "i">>,
        image |-> "https://images.unsplash.com/photo-1563379091339-03246963d96c?w=400"],
       [keyword |-> <<"c", "h", "i", "c", "k", "e", "n", " ", "w", "i", "n", "g", "s">>,
        image |-> "https://images.unsplash.com/photo-1527477396000-e27163b481c2?w=400"],
       [keyword |-> <<"b", "u", "t", "t", "e", "r", " ", "c", "h", "i", "c", "k", "e", "n">>,
        image |-> "https://images.unsplash.com/photo-1565299624946-b28f40a0ca4b?w=400"],
       [keyword |-> <<"n", "a", "r", "u", "t", "o", " ", "r", "o", "l", "l">>,
        image |-> "https://images.unsplash.com/photo-1579584425555-c3ce17fd4351?w=400"],
       [keyword |-> <<"c", "a", "l", "i", "f", "o", "r", "n", "i", "a", " ", "r", "o", "l", "l">>,
        image |-> "https://images.unsplash.com/photo-1579584425555-c3ce17fd4351?w=400"],
       [keyword |-> <<"s", "a", "l", "m", "o", "n", " ", "r", "o", "l", "l">>,
        image |-> "https://images.unsplash.com/photo-1579584425555-c3ce17fd4351?w=400"],
       [keyword |-> <<"t", "u", "n", "a", " ", "r", "o", "l", "l">>,
        image |-> "https://images.unsplash.com/photo-1579584425555-c3ce17fd4351?w=400"],
       [keyword |-> <<"s", "u", "s", "h", "i", " ", "r", "o", "l", "l">>,
        image |-> "https://images.unsplash.com/photo-1579584425555-c3ce17fd4351?w=400"],
       [keyword |-> <<"s", "u", "s", "h", "i">>,
        image |-> "https://images.unsplash.com/photo-1579584425555-c3ce17fd4351?w=400"],
       [keyword |-> <<"r", "o", "l", "l">>,
        image |-> "https://images.unsplash.com/photo-1579584425555-c3ce17fd4351?w=400"],
       [keyword |-> <<"c", "h", "i", "c", "k", "e", "n", " ", "b", "u", "r", "g", "e", "r">>,
        image |-> "https://images.unsplash.com/photo-1571091718767-18b5b1457add?w=400"],
       [keyword |-> <<"b", "e", "e", "f", " ", "b", "u", "r", "g", "e", "r">>,
        image |-> "https://images.unsplash.com/photo-1546833999-b9f581a1996d?w=400"],
       [keyword |-> <<"v", "e", "g", "g", "i", "e", " ", "b", "u", "r", "g", "e", "r">>,
        image |-> "https://images.unsplash.com/photo-1525059696034-4967a729002e?w=400"],
       [keyword |-> <<"b", "e", "y", "o", "n", "d", " ", "b", "u", "r", "g", "e", "r">>,
        image |-> "https://images.unsplash.com/photo-1525059696034-4967a729002e?w=400"],
       [keyword |-> <<"s", "a", "l", "m", "o", "n", " ", "b", "u", "r", "g", "e", "r">>,
        image |-> "https://images.unsplash.com/photo-1544943910-4c1dc44aab44?w=400"],
       [keyword |-> <<"f", "i", "s", "h", " ", "b", "u", "r", "g", "e", "r">>,
        image |-> "https://images.unsplash.com/photo-1544943910-4c1dc44aab44?w=400"],
       [keyword |-> <<"b", "u", "r", "g", "e", "r">>,
        image |-> "https://images.unsplash.com/photo-1571091718767-18b5b1457add?w=400"],
       [keyword |-> <<"c", "h", "i", "c", "k", "e", "n">>,
        image |-> "https://images.unsplash.com/photo-1598515214211-89d3c73ae83b?w=400"],
       [keyword |-> <<"b", "e", "e", "f">>,
        image |-> "https://images.unsplash.com/photo-1546833999-b9f581a1996d?w=400"],
       [keyword |-> <<"p", "a", "s", "t", "a">>,
        image |-> "https://images.unsplash.com/photo-1551183053-bf91a1d81141?w=400"],
       [keyword |-> <<"p", "i", "z", "z", "a">>,
        image |-> "https://images.unsplash.com/photo-1513104890138-7c749659a591?w=400"],
       [keyword |-> <<"s", "a", "l", "a", "d">>,
        image |-> "https://images.unsplash.com/photo-1512621776951-a57141f2eefd?w=400"],
       [keyword |-> <<"s", "o", "u", "p">>,
        image |-> "https://images.unsplash.com/photo-1547592180-85f173990554?w=400"],
       [keyword |-> <<"f", "i", "s", "h">>,
        image |-> "https://images.unsplash.com/photo-1544943910-4c1dc44aab44?w=400"],
       [keyword |-> <<"d", "e", "s", "s", "e", "r", "t">>,
        image |-> "https://images.unsplash.com/photo-1488477181946-6428a0291777?w=400"],
       [keyword |-> <<"d", "r", "i", "n", "k">>,
        image |-> "https://images.unsplash.com/photo-1544145945-f90425340c7e?w=400"] >>

Keywords == [k \in DOMAIN commonFoodImages |-> commonFoodImages[k].keyword]

\* Array.prototype.sort with (a, b) => b.length - a.length: by length, longest
\* first; the sort is stable
RECURSIVE InsertByLength(_, _)
InsertByLength(sorted, x) ==
    IF sorted = <<>> THEN <<x>>
    ELSE IF Len(Head(sorted)) >= Len(x)
         THEN <<Head(sorted)>> \o InsertByLength(Tail(sorted), x)
         ELSE <<x>> \o sorted

RECURSIVE SortByLengthDesc(_)
SortByLengthDesc(ks) ==
    IF ks = <<>> THEN <<>>
    ELSE InsertByLength(SortByLengthDesc(SubSeq(ks, 1, Len(ks) - 1)), ks[Len(ks)])

sortedKeywords_InsertionOrder == Keywords
sortedKeywords == SortByLengthDesc(Keywords)

\* commonFoodImages.get(keyword)
ImageOf(keyword) ==
    commonFoodImages[CHOOSE k \in DOMAIN commonFoodImages :
                         commonFoodImages[k].keyword = keyword].image

NoImage == "null"

\* the for loop of getFallbackImage: the first keyword of ks the name includes
RECURSIVE FirstMatch(_, _)
FirstMatch(ks, normalizedName) ==
    IF ks = <<>> THEN NoImage
    ELSE IF Includes(normalizedName, Head(ks)) THEN ImageOf(Head(ks))
         ELSE FirstMatch(Tail(ks), normalizedName)

\* ImageCacheService.getFallbackImage on a name given as a character sequence
FallbackImageFor(itemName) == FirstMatch(sortedKeywords, toLowerCase(itemName))

(* LLMService.parseResponse.  The response is a sequence of tokens: braces,
   markdown fences and other text.  What JSON.parse makes of the text between
   the braces is given with the response: whether it parses after
   fixCommonJsonIssues, whether it parses after aggressiveJsonClean, whether the
   parsed value has an items array and how many of its items have a name and an
   originalName, and how many item patterns manualJsonReconstruction finds. *)

\* String.prototype.indexOf / lastIndexOf, 0-based, -1 when absent
IndexOf(s, c) ==
    IF \E k \in DOMAIN s : s[k] = c
    THEN (CHOOSE k \in DOMAIN s : s[k] = c /\ \A j \in 1..(k - 1) : s[j] # c) - 1
    ELSE -1
LastIndexOf(s, c) ==
    IF \E k \in DOMAIN s : s[k] = c
    THEN (CHOOSE k \in DOMAIN s : s[k] = c /\ \A j \in (k + 1)..Len(s) : s[j] # c) - 1
    ELSE -1

\* a markdown code fence, with the language tag and whitespace that follow it
IsFence(c) == c = "fence"
NotFence(c) == ~IsFence(c)
\* the two .replace calls of llmService.ts:161-163 that delete the fences
RemoveFences(s) == SelectSeq(s, NotFence)

Thrown(message) == [kind |-> "throw", via |-> "none", items |-> 0, message |-> message]
Parsed(via, hasItems, items) == [via |-> via, hasItems |-> hasItems, items |-> items]

\* LLMService.manualJsonReconstruction: its items array holds one item per
\* pattern found, each with a name and an originalName.  It never throws, so the
\* placeholder item of the catch at llmService.ts:202-215 is never built.
manualJsonReconstruction(r) == Parsed("reconstruction", TRUE, r.patterns)

\* the nested parse attempts of parseResponse (llmService.ts:181-217)
ParseAttempts(r) ==
    IF r.parses1 THEN Parsed("parse", r.shape = "items", r.items)
    ELSE IF r.parses2 THEN Parsed("clean", r.shape = "items", r.items)
         ELSE manualJsonReconstruction(r)

\* LLMService.parseResponse: a thrown error is caught at line 238 and rethrown
parseResponse(r) ==
    LET cleanResponse == RemoveFences(r.text)
        firstBrace == IndexOf(cleanResponse, "{")
        lastBrace == LastIndexOf(cleanResponse, "}")
    IN  IF firstBrace = -1 \/ lastBrace = -1 \/ firstBrace >= lastBrace
        THEN Thrown("No valid JSON object found in response")
        ELSE LET parsed == ParseAttempts(r)
             IN  IF ~parsed.hasItems
                 THEN Thrown("Invalid response format: missing items array")
                 ELSE [kind |-> "result", via |-> parsed.via, items |-> parsed.items,
                       message |-> "none"]

(* Inputs of the pure functions *)

MaxResponseLen == 3
ResponseTokens == {"{", "}", "fence", "x"}
Responses ==
    [text : SeqsUpTo(ResponseTokens, MaxResponseLen), parses1 : BOOLEAN, parses2 : BOOLEAN,
     shape : {"items", "other"}, items : {0, 1}, patterns : {0, 1}]

\* the categories the prompt asks the translation engine for (llmService.ts:91)
Other == <<"O", "t", "h", "e", "r">>
Categories ==
    { <<"A", "p", "p", "e", "t", "i", "z", "e", "r", "s">>,
      <<"M", "a", "i", "n", " ", "C", "o", "u", "r", "s", "e", "s">>,
      <<"D", "e", "s", "s", "e", "r", "t", "s">>,
      <<"B", "e", "v", "e", "r", "a", "g", "e", "s">>,
      <<"S", "i", "d", "e", "s">>,
      <<"S", "p", "e", "c", "i", "a", "l", "s">>,
      <<"O", "t", "h", "e", "r">> }

\* llmService.ts:230  item.category ? String(item.category).trim() : 'Other'
\* (an absent category and the empty string are both falsy)
CleanCategory(category) == IF category = <<>> THEN Other ELSE Trim(category)

\* category strings of the engine: absent, blank, of the enumeration (plain and
\* padded), and one the prompt does not list
Starters == <<"S", "t", "a", "r", "t", "e", "r", "s">>
RawCategories == { <<>>, <<" ">>, <<"D", "e", "s", "s", "e", "r", "t", "s">>, <<" ", "S", "i", "d", "e", "s", " ">>, Starters }

MaxNameLen == 3

\* a letter in both cases, a whitespace character and a special character
KeyAlphabet == {"a", "A", " ", "!"}
\* the descriptions passed with the two names: equal, and different
DescriptionPairs == { << <<>>, <<>> >>, << <<>>, <<"h", "o", "t">> >> }

SpicyChickenTikkaMasala == <<"S", "p", "i", "c", "y", " ", "C", "h", "i", "c", "k", "e", "n", " ", "T", "i", "k", "k", "a", " ", "M", "a", "s", "a", "l", "a">>
ChiliChickenBurger == <<"C", "h", "i", "l", "i", " ", "C", "h", "i", "c", "k", "e", "n", " ", "B", "u", "r", "g", "e", "r">>
ChickenTikkaVeggieBurger == <<"C", "h", "i", "c", "k", "e", "n", " ", "T", "i", "k", "k", "a", " ", "V", "e", "g", "g", "i", "e", " ", "B", "u", "r", "g", "e", "r">>
SpringRolls == <<"S", "p", "r", "i", "n", "g", " ", "R", "o", "l", "l", "s">>
BeefBurger == <<"B", "e", "e", "f", " ", "B", "u", "r", "g", "e", "r">>
GrilledSalmon == <<"G", "r", "i", "l", "l", "e", "d", " ", "S", "a", "l", "m", "o", "n">>
PadThai == <<"P", "a", "d", " ", "T", "h", "a", "i">>
PadThaiLoud == <<"P", "A", "D", " ", " ", "T", "H", "A", "I", "!">>

PadThaiTabbed == <<"p", "a", "d", "\t", "t", "h", "a", "i", "\n">>

\* every name over the alphabet up to the bound, and three spellings of a dish
KeyNames == SeqsUpTo(KeyAlphabet, MaxNameLen) \cup {PadThai, PadThaiLoud, PadThaiTabbed}

FoodNames ==
    {SpicyChickenTikkaMasala, ChiliChickenBurger, ChickenTikkaVeggieBurger, SpringRolls,
     BeefBurger, GrilledSalmon, PadThai, PadThaiLoud}

NoCall == [fn |-> "none"]

-----------------------------------------------------------------------------
(* ImageCacheService: the durable tier (Redis) and the process-local tier
   (memoryCache).  Time is counted in ticks of 84 hours, half of CACHE_DURATION;
   a cache call is short against a tick, so the clock stands still while a call
   is in flight. *)

MaxTime == 3

CACHE_DURATION == 7 * 24 * 60 * 60 * 1000
REDIS_EXPIRE_SECONDS == 7 * 24 * 60 * 60
TickMs == 84 * 60 * 60 * 1000

Callers == {1, 2}

\* names the cache is called with: two spellings of one dish
CacheNames == {PadThai, PadThaiLoud}
CacheDescription == <<"h", "o", "t">>
CacheKeys == {generateCacheKey(n, CacheDescription) : n \in CacheNames}
NoKey == [prefix |-> "none", digest |-> Md5Hex(<<>>)]

\* image references: one served by the synthesis engine, which expires, and one
\* of a host validateImageUrl takes as permanent
NoRef == [host |-> "none", path |-> "none"]
DalleUrl == [host |-> "oaidalleapiprodscus.blob.core.windows.net", path |-> "img-1.png"]
UnsplashUrl == [host |-> "images.unsplash.com", path |-> "photo-1"]
Urls == {DalleUrl, UnsplashUrl}

\* validateImageUrl: url.includes('unsplash.com') || url.includes('placeholder.com')
IsPermanentUrl(url) == url.host \in {"images.unsplash.com", "via.placeholder.com"}

\* a CachedImage; NoEntry stands for undefined / null
NoEntry == [imageUrl |-> NoRef, generatedAt |-> 0, itemName |-> <<>>, description |-> <<>>]
CachedImage(name, description, url, t) ==
    [imageUrl |-> url, generatedAt |-> t, itemName |-> name, description |-> description]

\* JSON.stringify(cacheData): the Date becomes its ISO string
Stringify(entry) == [json |-> [entry EXCEPT !.generatedAt = [iso |-> entry.generatedAt]]]
\* JSON.parse(cachedData) followed by parsed.generatedAt = new Date(parsed.generatedAt)
ParseCached(data) == [data.json EXCEPT !.generatedAt = @.iso]

\* a Redis key: absent, or a value with the time (ms) at which the key expires
NoValue == [present |-> FALSE, value |-> Stringify(NoEntry), expireAt |-> 0]
StoredValue(value, seconds, t) ==
    [present |-> TRUE, value |-> value, expireAt |-> t + seconds * 1000]

\* the state of one getCachedImage / setCachedImage call
NoReturn == [kind |-> "none", entry |-> NoEntry]
IdleCall ==
    [pc |-> "idle", op |-> "none", name |-> <<>>, url |-> NoRef, key |-> NoKey,
     data |-> NoEntry, local |-> NoEntry, durable |-> "none", verdict |-> "none",
     del |-> "none", localVerdict |-> "none", afterDead |-> FALSE, ret |-> NoReturn]

\* the call returns (kind "entry", "null" or "void") or throws (kind "throw")
Return(c, kind, entry) == [c EXCEPT !.pc = "returned", !.ret = [kind |-> kind, entry |-> entry]]

\* the record kept of the last completed setCachedImage of a key
NoPut == [done |-> FALSE, url |-> NoRef, at |-> 0, evicted |-> FALSE]

\* the state of one generateWithFallback call; NoGen: no call made yet
NoGen == [pc |-> "idle", name |-> <<>>, attempt |-> 0, url |-> NoRef,
          ret |-> [kind |-> "none", imageUrl |-> NoRef]]

\* the cache and the pure functions at rest
CacheIdle ==
    /\ redisStore = [k \in CacheKeys |-> NoValue]
    /\ memoryCache = [k \in CacheKeys |-> NoEntry]
    /\ isRedisConnected = FALSE
    /\ now = 0
    /\ urlExpired = FALSE
    /\ calls = [p \in Callers |-> IdleCall]
    /\ lastGetFoundDead = FALSE
    /\ lastPut = [k \in CacheKeys |-> NoPut]

FnIdle == fnCall = NoCall /\ fnResult = <<>>

-----------------------------------------------------------------------------
(* Image cache, as the synthesis stage sees it *)

getCachedImage(name) == imageCache[name]

\* the static keyword table: "chicken tikka" is one of its keywords
getFallbackImage(name) ==
    IF name = "chicken tikka" THEN StockUrl("chicken tikka") ELSE NoUrl

-----------------------------------------------------------------------------
\* no session running
PipelineIdle ==
    /\ pc = "start"
    /\ events = <<>>
    /\ generateImages = FALSE
    /\ ocrText = 0
    /\ attempt = 0
    /\ menu = <<>>
    /\ i = 0
    /\ processedCount = 0
    /\ wpc = [w \in Items |-> "idle"]
    /\ wattempt = [w \in Items |-> 0]
    /\ results = [w \in Items |-> NoResult]
    /\ imageCache = [nm \in Names |-> NoUrl]
    /\ ocrCalls = 0
    /\ llmCalls = 0
    /\ engineCalls = [w \in Items |-> 0]
    /\ workerCalls = [w \in Items |-> 0]
    /\ llmFailures = 0
    /\ engineFails = [w \in Items |-> 0]
    /\ resultCount = [w \in Items |-> 0]
    /\ wread = [w \in Items |-> NoUrl]
    /\ lookupQueue = <<>>
    /\ lastError = 0
    /\ wlive = [w \in Items |-> "none"]
    /\ hasFile = FALSE
    /\ response = NoResponse
    /\ handlerPc = "idle"
    /\ promise = "none"
    /\ connected = TRUE
    /\ gen = NoGen
    /\ timers = NoTimers
    /\ batches = <<>>
    /\ delivered = <<>>

Init ==
    /\ CacheIdle
    /\ FnIdle
    /\ pc = "start"
    /\ events = <<>>
    /\ generateImages \in BOOLEAN
    /\ ocrText = 0
    /\ attempt = 0
    /\ menu = <<>>
    /\ i = 0
    /\ processedCount = 0
    /\ wpc = [w \in Items |-> "idle"]
    /\ wattempt = [w \in Items |-> 0]
    /\ results = [w \in Items |-> NoResult]
    /\ imageCache \in {[nm \in Names |-> IF nm \in S THEN CachedUrl(nm) ELSE NoUrl] :
                           S \in SUBSET Names}
    /\ ocrCalls = 0
    /\ llmCalls = 0
    /\ engineCalls = [w \in Items |-> 0]
    /\ workerCalls = [w \in Items |-> 0]
    /\ llmFailures = 0
    /\ engineFails = [w \in Items |-> 0]
    /\ resultCount = [w \in Items |-> 0]
    /\ wread = [w \in Items |-> NoUrl]
    /\ lookupQueue = <<>>
    /\ lastError = 0
    /\ wlive = [w \in Items |-> "none"]
    /\ hasFile \in BOOLEAN
    /\ response = NoResponse
    /\ handlerPc = "idle"
    /\ promise = "none"
    /\ connected = TRUE
    /\ gen = NoGen
    /\ timers = NoTimers
    /\ batches = <<>>
    /\ delivered = <<>>

\* the batch's workers run up to their first await (getCachedImage)
StartWorkers(m, i0) ==
    /\ wpc' = [w \in Items |-> IF w \in BatchOf(m, i0) THEN "cache_wait" ELSE wpc[w]]
    /\ wattempt' = [w \in Items |-> IF w \in BatchOf(m, i0) THEN 1 ELSE wattempt[w]]
    /\ results' = [w \in Items |-> IF w \in BatchOf(m, i0) THEN NoResult ELSE results[w]]
    /\ workerCalls' = [w \in Items |->
                          IF w \in BatchOf(m, i0) THEN workerCalls[w] + 1 ELSE workerCalls[w]]
    /\ lookupQueue' = lookupQueue \o [k \in 1..Cardinality(BatchOf(m, i0)) |-> i0 + k]
    /\ wlive' = [w \in Items |-> IF w \in BatchOf(m, i0) THEN "none" ELSE wlive[w]]
    /\ batches' = Append(batches, BatchOf(m, i0))

\* POST /api/translate without a file: 400 and no processing
Reject ==
    /\ pc = "start"
    /\ ~hasFile
    /\ response' = Response(400, Len(events))
    /\ handlerPc' = "returned"
    /\ pc' = "rejected"
    /\ UNCHANGED <<cacheVars, fnVars, gen, timers, batches, events, generateImages, ocrText, attempt, menu, i,
                   processedCount, wpc, wattempt, results, imageCache, ocrCalls, llmCalls,
                   engineCalls, workerCalls, llmFailures, engineFails, resultCount, wread,
                   lookupQueue, lastError, wlive, hasFile, promise, connected, delivered>>

\* the POST /api/translate handler: the 202 response, then processMenuAsync runs
\* up to the await of extractText and the handler returns
Start ==
    /\ pc = "start"
    /\ hasFile
    /\ response' = Response(202, AckPosition(events, StartEvents))
    /\ events' = events \o StartEvents
    /\ ocrCalls' = ocrCalls + 1
    /\ pc' = "ocr_wait"
    /\ promise' = "pending"
    /\ handlerPc' = HandlerAfterCall
    /\ Deliver
    /\ UNCHANGED <<hasFile, connected>>
    /\ UNCHANGED <<cacheVars, fnVars, gen, timers, batches, generateImages, ocrText, attempt, menu, i, processedCount, wpc,
                   wattempt, results, imageCache, llmCalls, engineCalls, workerCalls,
                   llmFailures, engineFails, resultCount, wread, lookupQueue,
                   lastError, wlive>>

\* extractText settles; on readable text runs on to the first translateMenu call
OcrReturn ==
    /\ pc = "ocr_wait"
    /\ \E r \in OcrOutcomes :
          /\ events' = events \o AfterOcr(r)
          /\ ocrText' = r.len
          /\ IF OcrProceeds(r)
             THEN /\ attempt' = 1
                  /\ llmCalls' = llmCalls + 1
                  /\ pc' = "llm_wait"
                  /\ UNCHANGED promise
             ELSE /\ pc' = "done"
                  /\ promise' = AfterCatch("ocr")
                  /\ UNCHANGED <<attempt, llmCalls>>
    /\ Deliver
    /\ UNCHANGED <<hasFile, response, handlerPc, connected>>
    /\ UNCHANGED <<cacheVars, fnVars, gen, timers, batches, generateImages, menu, i, processedCount, wpc, wattempt, results,
                   imageCache, ocrCalls, engineCalls, workerCalls,
                   llmFailures, engineFails, resultCount, wread, lookupQueue,
                   lastError, wlive>>

\* translateMenu settles inside retryTranslation
TranslateReturn ==
    /\ pc = "llm_wait"
    /\ \E r \in LlmOutcomes :
          IF r.ok
          THEN /\ menu' = r.menu
               /\ events' = events \o AfterTranslation(r.menu)
               /\ IF SynthesisRequested(r.menu)
                  THEN /\ StartWorkers(r.menu, 0)
                       /\ pc' = "batch_wait"
                       /\ UNCHANGED promise
                  ELSE /\ pc' = "done"
                       /\ promise' = "resolved"
                       /\ UNCHANGED <<wpc, wattempt, results, workerCalls, lookupQueue,
                                      wlive, batches>>
               /\ UNCHANGED <<llmFailures, lastError, timers>>
          ELSE /\ llmFailures' = llmFailures + 1
               /\ lastError' = LastErrorAfter(lastError, ErrorOfCall(llmCalls))
               /\ IF attempt < TranslationMaxRetries
                  THEN /\ pc' = "llm_backoff"
                       /\ timers' = [timers EXCEPT !.backoff = Append(@, BackoffDelay(attempt))]
                       /\ UNCHANGED <<events, promise>>
                  ELSE /\ pc' = "done"
                       /\ events' = events \o TranslationErrorEvents(lastError')
                       /\ promise' = AfterCatch("translation")
                       /\ UNCHANGED timers
               /\ UNCHANGED <<menu, wpc, wattempt, results, workerCalls, lookupQueue,
                              wlive, batches>>
    /\ Deliver
    /\ UNCHANGED <<hasFile, response, handlerPc, connected>>
    /\ UNCHANGED <<cacheVars, fnVars, gen, generateImages, ocrText, attempt, i, processedCount, imageCache,
                   ocrCalls, llmCalls, engineCalls, engineFails, resultCount, wread>>

\* the backoff timer of retryTranslation fires: next attempt
BackoffDone ==
    /\ pc = "llm_backoff"
    /\ attempt' = attempt + 1
    /\ llmCalls' = llmCalls + 1
    /\ pc' = "llm_wait"
    /\ UNCHANGED <<hasFile, response, handlerPc, promise, connected, delivered>>
    /\ UNCHANGED <<cacheVars, fnVars, gen, timers, batches, events, generateImages, ocrText, menu, i, processedCount, wpc,
                   wattempt, results, imageCache, ocrCalls, engineCalls, workerCalls,
                   llmFailures, engineFails, resultCount, wread, lookupQueue,
                   lastError, wlive>>

\* ImageGenService.getFallbackImageUrl: the placeholder naming the item
getFallbackImageUrl(name) == PlaceholderUrl(name)

\* generateWithFallback returned url to worker w: processedCount++ and the result
WorkerFinish(w, url) ==
    /\ processedCount' = processedCount + 1
    /\ results' = [results EXCEPT
                      ![w] = WorkerResult(menu, w, [threw |-> FALSE, url |-> url],
                                          processedCount + 1)]
    /\ wpc' = [wpc EXCEPT ![w] = "finished"]
    /\ resultCount' = [resultCount EXCEPT ![w] = @ + 1]

\* generateFoodImage after a cache miss: the keyword fallback, else the engine call
\* (a failing initialize() counts as a failed engine call)
AfterMiss_EngineFirst(w) ==
    /\ wpc' = [wpc EXCEPT ![w] = "engine_wait"]
    /\ engineCalls' = [engineCalls EXCEPT ![w] = @ + 1]
    /\ UNCHANGED <<processedCount, results, resultCount>>
AfterMiss(w) ==
    IF getFallbackImage(menu[w]) # NoUrl
    THEN /\ WorkerFinish(w, getFallbackImage(menu[w]))
         /\ UNCHANGED engineCalls
    ELSE /\ wpc' = [wpc EXCEPT ![w] = "engine_wait"]
         /\ engineCalls' = [engineCalls EXCEPT ![w] = @ + 1]
         /\ UNCHANGED <<processedCount, results, resultCount>>

\* getCachedImage: the store answers the read (answers come in issue order); an
\* entry found goes to the liveness probe, a miss returns to generateFoodImage
CacheLookupReturn(w) ==
    /\ pc = "batch_wait"
    /\ wpc[w] = "cache_wait"
    /\ lookupQueue # <<>> /\ Head(lookupQueue) = w
    /\ lookupQueue' = Tail(lookupQueue)
    /\ wread' = [wread EXCEPT ![w] = getCachedImage(menu[w])]
    /\ wlive' = [wlive EXCEPT ![w] = "none"]
    /\ IF getCachedImage(menu[w]) # NoUrl
       THEN /\ wpc' = [wpc EXCEPT ![w] = "probe_wait"]
            /\ UNCHANGED <<processedCount, results, resultCount, engineCalls>>
       ELSE AfterMiss(w)
    /\ UNCHANGED <<hasFile, response, handlerPc, promise, connected, delivered>>
    /\ UNCHANGED <<cacheVars, fnVars, gen, timers, batches, pc, events, generateImages, ocrText, attempt, menu, i, wattempt,
                   imageCache, ocrCalls, llmCalls, workerCalls, llmFailures, engineFails,
                   lastError>>

\* getCachedImage: validateImageUrl settles; a live entry is the cache hit, a dead
\* one is deleted from the cache and the lookup reports a miss
ProbeReturn(w) ==
    /\ pc = "batch_wait"
    /\ wpc[w] = "probe_wait"
    /\ \E live \in BOOLEAN :
          IF live
          THEN /\ wlive' = [wlive EXCEPT ![w] = "live"]
               /\ WorkerFinish(w, wread[w])
               /\ UNCHANGED <<imageCache, engineCalls>>
          ELSE /\ wlive' = [wlive EXCEPT ![w] = "dead"]
               /\ imageCache' = [imageCache EXCEPT ![menu[w]] = NoUrl]
               /\ AfterMiss(w)
    /\ UNCHANGED <<hasFile, response, handlerPc, promise, connected, delivered>>
    /\ UNCHANGED <<cacheVars, fnVars, gen, timers, batches, pc, events, generateImages, ocrText, attempt, menu, i, wattempt,
                   ocrCalls, llmCalls, workerCalls, llmFailures, engineFails, wread,
                   lookupQueue, lastError>>

\* openai.images.generate settles: success goes on to setCachedImage, failure is
\* caught by generateWithFallback (retry delay, or the placeholder after the last attempt)
EngineReturn(w) ==
    /\ pc = "batch_wait"
    /\ wpc[w] = "engine_wait"
    /\ \E ok \in BOOLEAN :
          IF ok
          THEN /\ wpc' = [wpc EXCEPT ![w] = "set_wait"]
               /\ UNCHANGED <<processedCount, results, resultCount, engineFails, timers>>
          ELSE /\ engineFails' = [engineFails EXCEPT ![w] = @ + 1]
               /\ IF wattempt[w] < ImageMaxRetries
                  THEN /\ wpc' = [wpc EXCEPT ![w] = "retry_delay"]
                       /\ timers' = [timers EXCEPT !.retry[w] = Append(@, RetryDelay(wattempt[w]))]
                       /\ UNCHANGED <<processedCount, results, resultCount>>
                  ELSE /\ WorkerFinish(w, getFallbackImageUrl(menu[w]))
                       /\ UNCHANGED timers
    /\ UNCHANGED <<hasFile, response, handlerPc, promise, connected, delivered>>
    /\ UNCHANGED <<cacheVars, fnVars, gen, batches, pc, events, generateImages, ocrText, attempt, menu, i, wattempt,
                   imageCache, ocrCalls, llmCalls, engineCalls, workerCalls, llmFailures,
                   wread, lookupQueue, lastError, wlive>>

\* setCachedImage returns: the entry is stored and the worker gets the new reference
SetCacheReturn(w) ==
    /\ pc = "batch_wait"
    /\ wpc[w] = "set_wait"
    /\ imageCache' = [imageCache EXCEPT ![menu[w]] = GeneratedUrl(menu[w])]
    /\ WorkerFinish(w, GeneratedUrl(menu[w]))
    /\ UNCHANGED <<hasFile, response, handlerPc, promise, connected, delivered>>
    /\ UNCHANGED <<cacheVars, fnVars, gen, timers, batches, pc, events, generateImages, ocrText, attempt, menu, i, wattempt,
                   ocrCalls, llmCalls, engineCalls, workerCalls, llmFailures, engineFails,
                   wread, lookupQueue, lastError, wlive>>

\* the retry timer of generateWithFallback fires: the next generateFoodImage call
\* runs up to its getCachedImage await
RetryDelayDone(w) ==
    /\ pc = "batch_wait"
    /\ wpc[w] = "retry_delay"
    /\ wattempt' = [wattempt EXCEPT ![w] = @ + 1]
    /\ wpc' = [wpc EXCEPT ![w] = "cache_wait"]
    /\ lookupQueue' = Append(lookupQueue, w)
    /\ UNCHANGED <<hasFile, response, handlerPc, promise, connected, delivered>>
    /\ UNCHANGED <<cacheVars, fnVars, gen, timers, batches, pc, events, generateImages, ocrText, attempt, menu, i, processedCount,
                   results, imageCache, ocrCalls, llmCalls, engineCalls, workerCalls,
                   llmFailures, engineFails, resultCount, wread, lastError, wlive>>

\* Promise.all(batchPromises) resolves: every worker of the batch has returned
BatchSettled == \A w \in BatchOf(menu, i) : wpc[w] = "finished"

\* the results are emitted in index order; then the pacing delay or the final event
BatchComplete ==
    /\ pc = "batch_wait"
    /\ BatchSettled
    /\ IF MoreBatches(menu, i)
       THEN /\ events' = events \o BatchResultEvents(menu, i, results)
            /\ pc' = "batch_delay"
            /\ timers' = [timers EXCEPT !.pacing = Append(@, PacingDelayMs)]
            /\ UNCHANGED promise
       ELSE /\ events' = events \o BatchResultEvents(menu, i, results)
                                \o ProcessingCompleteEvents(menu)
            /\ pc' = "done"
            /\ promise' = "resolved"
            /\ UNCHANGED timers
    /\ Deliver
    /\ UNCHANGED <<hasFile, response, handlerPc, connected>>
    /\ UNCHANGED <<cacheVars, fnVars, gen, batches, generateImages, ocrText, attempt, menu, i, processedCount, wpc,
                   wattempt, results, imageCache, ocrCalls, llmCalls, engineCalls,
                   workerCalls,
                   llmFailures, engineFails, resultCount, wread, lookupQueue,
                   lastError, wlive>>

\* the pacing timer fires: i += BATCH_SIZE and the next batch's workers start
BatchDelayDone ==
    /\ pc = "batch_delay"
    /\ i' = i + BATCH_SIZE
    /\ events' = events \o BatchStartEvents(menu, i + BATCH_SIZE, processedCount)
    /\ StartWorkers(menu, i + BATCH_SIZE)
    /\ pc' = "batch_wait"
    /\ Deliver
    /\ UNCHANGED <<hasFile, response, handlerPc, promise, connected>>
    /\ UNCHANGED <<cacheVars, fnVars, gen, timers, generateImages, ocrText, attempt, menu, processedCount, imageCache,
                   ocrCalls, llmCalls, engineCalls, llmFailures, engineFails, resultCount,
                   wread, lastError>>

Next ==
    \/ Reject
    \/ Start
    \/ OcrReturn
    \/ TranslateReturn
    \/ BackoffDone
    \/ \E w \in Items : CacheLookupReturn(w)
    \/ \E w \in Items : ProbeReturn(w)
    \/ \E w \in Items : EngineReturn(w)
    \/ \E w \in Items : SetCacheReturn(w)
    \/ \E w \in Items : RetryDelayDone(w)
    \/ BatchComplete
    \/ BatchDelayDone

Spec == Init /\ [][Next]_vars

\* What the runtime guarantees: the handler and the continuations of settled
\* promises run, timers fire, and validateImageUrl settles because its request
\* is aborted after 5 seconds.  extractText, the translation and synthesis engine
\* calls and the cache store commands are awaited without any timeout, so
\* nothing obliges them to settle.
Fairness ==
    /\ WF_vars(Reject)
    /\ WF_vars(Start)
    /\ WF_vars(BackoffDone)
    /\ \A w \in Items : WF_vars(ProbeReturn(w))
    /\ \A w \in Items : WF_vars(RetryDelayDone(w))
    /\ WF_vars(BatchComplete)
    /\ WF_vars(BatchDelayDone)

SpecLive == Init /\ [][Next]_vars /\ Fairness

\* the assumption that every external call settles: extraction, translation, the
\* cache read and write, and the synthesis engine (the probe has its own timeout)
CallsSettle ==
    /\ WF_vars(OcrReturn)
    /\ WF_vars(TranslateReturn)
    /\ \A w \in Items : WF_vars(CacheLookupReturn(w))
    /\ \A w \in Items : WF_vars(EngineReturn(w))
    /\ \A w \in Items : WF_vars(SetCacheReturn(w))

\* a request whose external calls all settle; the cache holds an image for one
\* of the two names
InitSettling ==
    /\ Init
    /\ imageCache = [nm \in Names |-> IF nm = "pad thai" THEN CachedUrl(nm) ELSE NoUrl]

SpecSettling == InitSettling /\ [][Next]_vars /\ Fairness /\ CallsSettle

\* the subscriber's socket disconnects and leaves the session's room; the room is
\* named after the socket id, so no later socket joins it
Disconnect ==
    /\ pc \notin {"start", "rejected"}
    /\ connected
    /\ connected' = FALSE
    /\ UNCHANGED <<cacheVars, fnVars, gen, timers, batches, pc, events, generateImages, ocrText, attempt, menu, i,
                   processedCount, wpc, wattempt, results, imageCache, ocrCalls, llmCalls,
                   engineCalls, workerCalls, llmFailures, engineFails, resultCount, wread,
                   lookupQueue, lastError, wlive, hasFile, response, handlerPc, promise,
                   delivered>>

\* a session whose subscriber may disconnect at any moment
NextDisconnecting ==
    \/ Start
    \/ OcrReturn
    \/ TranslateReturn
    \/ BackoffDone
    \/ \E w \in Items : CacheLookupReturn(w)
    \/ \E w \in Items : ProbeReturn(w)
    \/ \E w \in Items : EngineReturn(w)
    \/ \E w \in Items : SetCacheReturn(w)
    \/ \E w \in Items : RetryDelayDone(w)
    \/ BatchComplete
    \/ BatchDelayDone
    \/ Disconnect

\* an accepted request, met by a cache that holds an image for every name
InitDisconnecting ==
    /\ Init
    /\ hasFile
    /\ imageCache = [nm \in Names |-> CachedUrl(nm)]

SpecDisconnecting == InitDisconnecting /\ [][NextDisconnecting]_vars

-----------------------------------------------------------------------------
(* The pure functions applied to drawn inputs *)

InitFn ==
    /\ PipelineIdle
    /\ CacheIdle
    /\ fnResult = <<>>
    /\ \/ \E a \in KeyNames, b \in KeyNames, d \in DescriptionPairs :
             fnCall = [fn |-> "generateCacheKey", a |-> a, b |-> b, da |-> d[1], db |-> d[2]]
       \/ \E name \in FoodNames :
             fnCall = [fn |-> "getFallbackImage", name |-> name]
       \/ \E r \in Responses :
             fnCall = [fn |-> "parseResponse", response |-> r]
       \/ \E c \in RawCategories :
             fnCall = [fn |-> "cleanCategory", category |-> c]

\* generateCacheKey(a, da) and generateCacheKey(b, db)
ApplyGenerateCacheKey ==
    /\ fnCall.fn = "generateCacheKey"
    /\ fnResult = <<>>
    /\ fnResult' = << generateCacheKey(fnCall.a, fnCall.da),
                      generateCacheKey(fnCall.b, fnCall.db) >>
    /\ UNCHANGED <<fnCall, pipelineVars, cacheVars>>

\* getFallbackImage(name)
ApplyGetFallbackImage ==
    /\ fnCall.fn = "getFallbackImage"
    /\ fnResult = <<>>
    /\ fnResult' = << FallbackImageFor(fnCall.name) >>
    /\ UNCHANGED <<fnCall, pipelineVars, cacheVars>>

\* parseResponse(response)
ApplyParseResponse ==
    /\ fnCall.fn = "parseResponse"
    /\ fnResult = <<>>
    /\ fnResult' = << parseResponse(fnCall.response) >>
    /\ UNCHANGED <<fnCall, pipelineVars, cacheVars>>

\* the category given to a validated item of the parsed response
ApplyCleanCategory ==
    /\ fnCall.fn = "cleanCategory"
    /\ fnResult = <<>>
    /\ fnResult' = << CleanCategory(fnCall.category) >>
    /\ UNCHANGED <<fnCall, pipelineVars, cacheVars>>

NextFn ==
    \/ ApplyGenerateCacheKey
    \/ ApplyGetFallbackImage
    \/ ApplyParseResponse
    \/ ApplyCleanCategory

SpecFn == InitFn /\ [][NextFn]_vars

-----------------------------------------------------------------------------
(* getCachedImage and setCachedImage, one action per run between awaits *)

\* Date.now()
DateNow == now * TickMs

\* redisClient.get(key) as the server answers it
RedisGet(key) ==
    IF redisStore[key].present /\ DateNow < redisStore[key].expireAt
    THEN redisStore[key] ELSE NoValue

\* part_002:105  Date.now() - generatedAt.getTime() > CACHE_DURATION
IsExpired_Never(entry) == FALSE
IsExpired(entry) == DateNow - entry.generatedAt > CACHE_DURATION

\* validateImageUrl: permanent hosts pass unprobed; the HEAD request fails for an
\* expired reference and may fail (error, 5 s timeout) for a live one
ProbeAnswers(url) ==
    IF IsPermanentUrl(url) THEN {TRUE}
    ELSE IF urlExpired THEN {FALSE} ELSE {TRUE, FALSE}

NoCallInFlight == \A p \in Callers : calls[p].pc = "idle"

\* bookkeeping for the properties: a setCachedImage that returned in this step is
\* the key's last put; an entry deleted from a tier in this step is an eviction
PutCompleted(k) ==
    \E p \in Callers : /\ calls'[p].pc = "returned" /\ calls[p].pc # "returned"
                       /\ calls'[p].op = "set" /\ calls'[p].key = k
Evicted(k) ==
    \/ memoryCache[k] # NoEntry /\ memoryCache'[k] = NoEntry
    \/ redisStore[k].present /\ ~redisStore'[k].present
RecordPut ==
    lastPut' = [k \in DOMAIN lastPut |->
                   IF PutCompleted(k)
                   THEN LET c == calls'[CHOOSE p \in Callers :
                                            /\ calls'[p].pc = "returned" /\ calls[p].pc # "returned"
                                            /\ calls'[p].op = "set" /\ calls'[p].key = k]
                        IN  [done |-> TRUE, url |-> c.url, at |-> c.data.generatedAt,
                             evicted |-> FALSE]
                   ELSE IF Evicted(k) THEN [lastPut[k] EXCEPT !.evicted = TRUE]
                        ELSE lastPut[k]]

\* the memory-cache part of getCachedImage (part_002:101-122) run by call c
MemoryLookup(p, c) ==
    LET local == memoryCache[c.key]
    IN  IF local = NoEntry
        THEN /\ calls' = [calls EXCEPT ![p] = Return(c, "null", NoEntry)]
             /\ UNCHANGED memoryCache
        ELSE IF IsExpired(local)
             THEN /\ memoryCache' = [memoryCache EXCEPT ![c.key] = NoEntry]
                  /\ calls' = [calls EXCEPT ![p] = Return([c EXCEPT !.local = local],
                                                          "null", NoEntry)]
             ELSE /\ calls' = [calls EXCEPT ![p] = [c EXCEPT !.pc = "memory_probe",
                                                             !.local = local]]
                  /\ UNCHANGED memoryCache

\* catch (error) { console.warn('Redis get error:', error) } and on to the memory cache
OnRedisError_Rethrow(p, c) ==
    /\ calls' = [calls EXCEPT ![p] = Return(c, "throw", NoEntry)]
    /\ UNCHANGED memoryCache
OnRedisError(p, c) == MemoryLookup(p, c)

\* getCachedImage up to its first await
GetStart(p, name) ==
    /\ calls[p].pc = "idle"
    /\ LET c == [IdleCall EXCEPT !.op = "get", !.name = name,
                                 !.key = generateCacheKey(name, <<>>),
                                 !.afterDead = lastGetFoundDead]
       IN  IF isRedisConnected
           THEN /\ calls' = [calls EXCEPT ![p] = [c EXCEPT !.pc = "redis_get"]]
                /\ UNCHANGED memoryCache
           ELSE MemoryLookup(p, [c EXCEPT !.durable = "skipped"])
    /\ UNCHANGED <<fnVars, redisStore, isRedisConnected, now, urlExpired, lastGetFoundDead>>
    /\ RecordPut

\* redisClient.get settles
RedisGetReturn(p) ==
    /\ calls[p].pc = "redis_get"
    /\ \E ok \in BOOLEAN :
          IF ~ok
          THEN OnRedisError(p, [calls[p] EXCEPT !.durable = "error"])
          ELSE IF RedisGet(calls[p].key).present
               THEN /\ calls' = [calls EXCEPT ![p] =
                                    [@ EXCEPT !.pc = "redis_probe", !.durable = "hit",
                                              !.data = ParseCached(RedisGet(calls[p].key).value)]]
                    /\ UNCHANGED memoryCache
               ELSE MemoryLookup(p, [calls[p] EXCEPT !.durable = "miss"])
    /\ UNCHANGED <<pipelineVars, fnVars, redisStore, isRedisConnected, now, urlExpired, lastGetFoundDead>>
    /\ RecordPut

\* validateImageUrl(parsed.imageUrl) settles: mirror and return, or go on to del
RedisProbeReturn(p) ==
    /\ calls[p].pc = "redis_probe"
    /\ \E live \in ProbeAnswers(calls[p].data.imageUrl) :
          IF live
          THEN /\ memoryCache' = [memoryCache EXCEPT ![calls[p].key] = calls[p].data]
               /\ calls' = [calls EXCEPT ![p] =
                               Return([@ EXCEPT !.verdict = "live"], "entry", @.data)]
          ELSE /\ calls' = [calls EXCEPT ![p] = [@ EXCEPT !.pc = "redis_del",
                                                          !.verdict = "dead"]]
               /\ UNCHANGED memoryCache
    /\ UNCHANGED <<pipelineVars, fnVars, redisStore, isRedisConnected, now, urlExpired, lastGetFoundDead>>
    /\ RecordPut

\* redisClient.del settles: on success the memory entry goes too and the call
\* reports a miss; a rejected del (applied by the server or not) lands in the catch
RedisDelReturn(p) ==
    /\ calls[p].pc = "redis_del"
    /\ \E ok \in BOOLEAN :
          IF ok
          THEN /\ redisStore' = [redisStore EXCEPT ![calls[p].key] = NoValue]
               /\ memoryCache' = [memoryCache EXCEPT ![calls[p].key] = NoEntry]
               /\ calls' = [calls EXCEPT ![p] = Return([@ EXCEPT !.del = "ok"], "null", NoEntry)]
          ELSE /\ \E applied \in BOOLEAN :
                     redisStore' = IF applied
                                   THEN [redisStore EXCEPT ![calls[p].key] = NoValue]
                                   ELSE redisStore
               /\ OnRedisError(p, [calls[p] EXCEPT !.del = "error"])
    /\ UNCHANGED <<pipelineVars, fnVars, isRedisConnected, now, urlExpired, lastGetFoundDead>>
    /\ RecordPut

\* validateImageUrl(memoryCache.imageUrl) settles
MemoryProbeReturn(p) ==
    /\ calls[p].pc = "memory_probe"
    /\ \E live \in ProbeAnswers(calls[p].local.imageUrl) :
          IF live
          THEN /\ calls' = [calls EXCEPT ![p] =
                               Return([@ EXCEPT !.localVerdict = "live"], "entry", @.local)]
               /\ UNCHANGED memoryCache
          ELSE /\ memoryCache' = [memoryCache EXCEPT ![calls[p].key] = NoEntry]
               /\ calls' = [calls EXCEPT ![p] =
                               Return([@ EXCEPT !.localVerdict = "dead"], "null", NoEntry)]
    /\ UNCHANGED <<pipelineVars, fnVars, redisStore, isRedisConnected, now, urlExpired, lastGetFoundDead>>
    /\ RecordPut

\* the tail of setCachedImage: memoryCache.set(cacheKey, cacheData)
SetFinish(p, c) ==
    /\ memoryCache' = [memoryCache EXCEPT ![c.key] = c.data]
    /\ calls' = [calls EXCEPT ![p] = Return(c, "void", NoEntry)]

\* catch (error) { console.warn('Redis set error:', error) } and on to the memory cache
AfterRedisSetError_Rethrow(p, c) ==
    /\ calls' = [calls EXCEPT ![p] = Return(c, "throw", NoEntry)]
    /\ UNCHANGED memoryCache
AfterRedisSetError(p, c) == SetFinish(p, c)

\* setCachedImage up to its first await
SetStart(p, name, url) ==
    /\ calls[p].pc = "idle"
    /\ LET c == [IdleCall EXCEPT !.op = "set", !.name = name, !.url = url,
                                 !.key = generateCacheKey(name, <<>>),
                                 !.data = CachedImage(name, CacheDescription, url, DateNow)]
       IN  IF isRedisConnected
           THEN /\ calls' = [calls EXCEPT ![p] = [c EXCEPT !.pc = "redis_set"]]
                /\ UNCHANGED memoryCache
           ELSE SetFinish(p, [c EXCEPT !.durable = "skipped"])
    /\ lastGetFoundDead' = FALSE
    /\ UNCHANGED <<fnVars, redisStore, isRedisConnected, now, urlExpired>>
    /\ RecordPut

\* redisClient.setEx settles
RedisSetReturn(p) ==
    /\ calls[p].pc = "redis_set"
    /\ LET stored == [redisStore EXCEPT ![calls[p].key] =
                         StoredValue(Stringify(calls[p].data), REDIS_EXPIRE_SECONDS, DateNow)]
       IN  \E ok \in BOOLEAN :
              IF ok
              THEN /\ redisStore' = stored
                   /\ SetFinish(p, [calls[p] EXCEPT !.durable = "ok"])
              ELSE /\ \E applied \in BOOLEAN :
                         redisStore' = IF applied THEN stored ELSE redisStore
                   /\ AfterRedisSetError(p, [calls[p] EXCEPT !.durable = "error"])
    /\ UNCHANGED <<pipelineVars, fnVars, isRedisConnected, now, urlExpired, lastGetFoundDead>>
    /\ RecordPut

\* the caller takes the result
Settle(p) ==
    /\ calls[p].pc = "returned"
    /\ calls' = [calls EXCEPT ![p] = IdleCall]
    /\ lastGetFoundDead' =
          IF calls[p].op = "get" THEN calls[p].verdict = "dead" ELSE lastGetFoundDead
    /\ UNCHANGED <<pipelineVars, fnVars, redisStore, memoryCache, isRedisConnected, now, urlExpired>>
    /\ RecordPut

\* the clock advances by one tick
Tick ==
    /\ NoCallInFlight
    /\ now < MaxTime
    /\ now' = now + 1
    /\ UNCHANGED <<pipelineVars, fnVars, redisStore, memoryCache, isRedisConnected, urlExpired, calls,
                   lastGetFoundDead>>
    /\ RecordPut

\* the client's 'connect' and 'disconnect' / 'error' handlers (part_002:37-50)
RedisConnect ==
    /\ ~isRedisConnected
    /\ isRedisConnected' = TRUE
    /\ UNCHANGED <<pipelineVars, fnVars, redisStore, memoryCache, now, urlExpired, calls, lastGetFoundDead>>
    /\ RecordPut

RedisDisconnect ==
    /\ isRedisConnected
    /\ isRedisConnected' = FALSE
    /\ UNCHANGED <<pipelineVars, fnVars, redisStore, memoryCache, now, urlExpired, calls, lastGetFoundDead>>
    /\ RecordPut

\* the synthesis engine's reference stops being served
UrlExpires ==
    /\ ~urlExpired
    /\ urlExpired' = TRUE
    /\ UNCHANGED <<pipelineVars, fnVars, redisStore, memoryCache, isRedisConnected, now, calls, lastGetFoundDead>>
    /\ RecordPut

InitCache ==
    /\ PipelineIdle
    /\ fnCall = NoCall /\ fnResult = <<>>
    /\ redisStore = [k \in CacheKeys |-> NoValue]
    /\ memoryCache = [k \in CacheKeys |-> NoEntry]
    /\ isRedisConnected \in BOOLEAN
    /\ now = 0
    /\ urlExpired = FALSE
    /\ calls = [p \in Callers |-> IdleCall]
    /\ lastGetFoundDead = FALSE
    /\ lastPut = [k \in CacheKeys |-> NoPut]

\* one caller, whose calls follow one another
Get(name) == NoCallInFlight /\ GetStart(1, name) /\ UNCHANGED pipelineVars
Put(name, url) == NoCallInFlight /\ SetStart(1, name, url) /\ UNCHANGED pipelineVars

NextCache ==
    \/ \E name \in CacheNames : Get(name)
    \/ RedisGetReturn(1)
    \/ RedisProbeReturn(1)
    \/ RedisDelReturn(1)
    \/ MemoryProbeReturn(1)
    \/ \E name \in CacheNames, url \in Urls : Put(name, url)
    \/ RedisSetReturn(1)
    \/ Settle(1)
    \/ Tick
    \/ RedisConnect
    \/ RedisDisconnect
    \/ UrlExpires

SpecCache == InitCache /\ [][NextCache]_vars

-----------------------------------------------------------------------------
(* Concurrent cache calls: two callers (two sessions, or two workers of a batch)
   call getCachedImage and setCachedImage for the same item, each run between two
   awaits being one step; the durable tier is available throughout *)

GetBy(p, name) == GetStart(p, name) /\ UNCHANGED pipelineVars
PutBy(p, name, url) == SetStart(p, name, url) /\ UNCHANGED pipelineVars

InitConcurrent ==
    /\ InitCache
    /\ isRedisConnected

\* the durable tier is available: no Redis command of the step was rejected
CommandsSucceed ==
    \A q \in Callers : calls'[q].durable # "error" /\ calls'[q].del # "error"

RedisGetSucceeds(p) == RedisGetReturn(p) /\ CommandsSucceed
RedisDelSucceeds(p) == RedisDelReturn(p) /\ CommandsSucceed
RedisSetSucceeds(p) == RedisSetReturn(p) /\ CommandsSucceed

NextConcurrent ==
    \E p \in Callers :
        \/ GetBy(p, PadThai)
        \/ RedisGetSucceeds(p)
        \/ RedisProbeReturn(p)
        \/ RedisDelSucceeds(p)
        \/ MemoryProbeReturn(p)
        \/ \E url \in Urls : PutBy(p, PadThai, url)
        \/ RedisSetSucceeds(p)
        \/ Settle(p)

SpecConcurrent == InitConcurrent /\ [][NextConcurrent]_vars

-----------------------------------------------------------------------------
(* generateWithFallback and generateFoodImage on the two-tier cache: one item at
   a time, each cache call made as caller 1 *)

\* the items: one without and one with a keyword of the static table
GenNames == {PadThai, BeefBurger}
GenKeys == {generateCacheKey(n, <<>>) : n \in GenNames}

\* the references openai.images.generate may return
DalleUrl2 == [host |-> "oaidalleapiprodscus.blob.core.windows.net", path |-> "img-2.png"]
EngineUrls == {DalleUrl, DalleUrl2}

\* the reference of a row of the keyword table, and getFallbackImageUrl's placeholder
StockRef(image) == [host |-> "images.unsplash.com", path |-> image]
PlaceholderRef(name) == [host |-> "via.placeholder.com", path |-> "400x400"]

GenResult(kind, url) == [kind |-> kind, imageUrl |-> url]

\* imageGenService.ts:141-145  the reference handed to setCachedImage
CachedReference_Placeholder(engineUrl, name) == PlaceholderRef(name)
CachedReference(engineUrl, name) == engineUrl

\* the catch of generateWithFallback: the retry delay, or after the last attempt
\* the placeholder
GenFailure(g) ==
    IF g.attempt < ImageMaxRetries
    THEN [g EXCEPT !.pc = "retry_delay"]
    ELSE [g EXCEPT !.pc = "returned", !.ret = GenResult("placeholder", PlaceholderRef(g.name))]

\* generateWithFallback(menuItem): attempt 1, and generateFoodImage up to the
\* first await of getCachedImage
GenCall(name) ==
    /\ gen.pc \in {"idle", "returned"}
    /\ gen' = [NoGen EXCEPT !.pc = "lookup", !.name = name, !.attempt = 1]
    /\ GetStart(1, name)
    /\ UNCHANGED sessionVars

\* getCachedImage has returned: the cached reference, else the keyword fallback,
\* else on to openai.images.generate
GenAfterGet ==
    /\ gen.pc = "lookup"
    /\ calls[1].pc = "returned"
    /\ calls' = [calls EXCEPT ![1] = IdleCall]
    /\ lastGetFoundDead' = (calls[1].verdict = "dead")
    /\ gen' = IF calls[1].ret.kind = "throw" THEN GenFailure(gen)
              ELSE IF calls[1].ret.kind = "entry"
              THEN [gen EXCEPT !.pc = "returned",
                               !.ret = GenResult("cached", calls[1].ret.entry.imageUrl)]
              ELSE IF FallbackImageFor(gen.name) # NoImage
              THEN [gen EXCEPT !.pc = "returned",
                               !.ret = GenResult("stock", StockRef(FallbackImageFor(gen.name)))]
              ELSE [gen EXCEPT !.pc = "engine"]
    /\ UNCHANGED <<sessionVars, fnVars, redisStore, memoryCache, isRedisConnected, now, urlExpired>>
    /\ RecordPut

\* openai.images.generate settles: on success setCachedImage runs up to its first
\* await; a failure (a failing initialize() included) lands in the catch
GenEngineReturn ==
    /\ gen.pc = "engine"
    /\ \E ok \in BOOLEAN :
          IF ok
          THEN \E u \in EngineUrls :
                  /\ gen' = [gen EXCEPT !.pc = "store", !.url = u]
                  /\ SetStart(1, gen.name, CachedReference(u, gen.name))
          ELSE /\ gen' = GenFailure(gen)
               /\ UNCHANGED <<cacheVars, fnVars>>
    /\ UNCHANGED sessionVars

\* setCachedImage has returned: generateFoodImage returns the engine's reference
GenAfterSet ==
    /\ gen.pc = "store"
    /\ calls[1].pc = "returned"
    /\ calls' = [calls EXCEPT ![1] = IdleCall]
    /\ gen' = IF calls[1].ret.kind = "throw" THEN GenFailure(gen)
              ELSE [gen EXCEPT !.pc = "returned", !.ret = GenResult("generated", gen.url)]
    /\ UNCHANGED <<sessionVars, fnVars, redisStore, memoryCache, isRedisConnected, now, urlExpired,
                   lastGetFoundDead>>
    /\ RecordPut

\* the retry timer fires: the next generateFoodImage call, up to the first await
\* of getCachedImage
GenRetryDelayDone ==
    /\ gen.pc = "retry_delay"
    /\ gen' = [gen EXCEPT !.pc = "lookup", !.attempt = @ + 1]
    /\ GetStart(1, gen.name)
    /\ UNCHANGED sessionVars

InitGen ==
    /\ PipelineIdle
    /\ FnIdle
    /\ redisStore = [k \in GenKeys |-> NoValue]
    /\ memoryCache = [k \in GenKeys |-> NoEntry]
    /\ isRedisConnected \in BOOLEAN
    /\ now = 0
    /\ urlExpired = FALSE
    /\ calls = [p \in Callers |-> IdleCall]
    /\ lastGetFoundDead = FALSE
    /\ lastPut = [k \in GenKeys |-> NoPut]

NextGen ==
    \/ \E name \in GenNames : GenCall(name)
    \/ GenAfterGet
    \/ GenEngineReturn
    \/ GenAfterSet
    \/ GenRetryDelayDone
    \/ RedisGetReturn(1)
    \/ RedisProbeReturn(1)
    \/ RedisDelReturn(1)
    \/ MemoryProbeReturn(1)
    \/ RedisSetReturn(1)
    \/ Tick
    \/ RedisConnect
    \/ RedisDisconnect
    \/ UrlExpires

SpecGen == InitGen /\ [][NextGen]_vars

-----------------------------------------------------------------------------
(* Vocabulary of the properties *)

Positions(type) == {k \in DOMAIN events : events[k].type = type}
Count(type) == Cardinality(Positions(type))
Emitted(type) == Positions(type) # {}
LastEvent == events[Len(events)]

TerminalTypes == {"processing_complete", "ocr_error", "translation_error", "processing_error"}
TerminalCount == Cardinality({k \in DOMAIN events : events[k].type \in TerminalTypes})

TranslationTypes ==
    {"translation_started", "translation_progress", "translation_complete", "translation_error"}
SynthesisTypes ==
    {"image_generation_started", "image_generation_progress", "image_generated",
     "image_generation_error"}

OcrReturned == pc \notin {"start", "rejected", "ocr_wait"}
\* extractText threw, or its text failed the validity gate
ExtractionFailed == OcrReturned /\ ocrText < 10
\* retryTranslation threw: every one of its three attempts failed
TranslationFailed == llmFailures = 3
TranslationSucceeded == llmCalls > llmFailures /\ pc \notin {"start", "ocr_wait", "llm_wait"}

\* worker invocations that have started and not yet returned
InFlight == {w \in Items : wpc[w] \notin {"idle", "finished"}}
EngineInFlight == {w \in Items : wpc[w] = "engine_wait"}

\* an image_generated event of item w is among the first k events
HasGenerated(w, k) ==
    \E j \in 1..k : events[j].item = w /\ events[j].type = "image_generated"

\* positions of the image_generated event(s) of item w
GeneratedAt(w) == {k \in DOMAIN events : events[k].type = "image_generated" /\ events[k].item = w}

-----------------------------------------------------------------------------
\* C1: within a session translation_started is never emitted before ocr_complete
\* and image_generation_started never before translation_complete.
C1_StageOrder ==
    /\ \A k \in Positions("translation_started") :
          \E j \in Positions("ocr_complete") : j < k
    /\ \A k \in Positions("image_generation_started") :
          \E j \in Positions("translation_complete") : j < k
    /\ \A k \in Positions("image_generation_started") :
          \E j \in Positions("translation_started") : j < k

C1_Witness == Emitted("image_generation_started") /\ Emitted("translation_started")

\* C2: a finished run of processMenuAsync has emitted exactly one of
\* processing_complete, ocr_error, translation_error, processing_error, and
\* no run ever emits two of them.
C2_ExactlyOneTerminal ==
    /\ TerminalCount <= 1
    /\ pc = "done" => TerminalCount = 1
    /\ TerminalCount = 1 => pc = "done"

C2_Witness == pc = "done" /\ Emitted("translation_error")

\* C3: processing_complete is emitted only when extraction and translation both
\* succeeded; after a failed extraction or translation there is no
\* processing_complete, no later stage is started and the stage's error event is
\* the last event of the session.
C3_CompleteOnlyOnSuccess ==
    /\ Emitted("processing_complete") =>
          /\ ocrText >= 10
          /\ llmFailures < 3
          /\ TranslationSucceeded
          /\ Emitted("ocr_complete") /\ Emitted("translation_complete")
    /\ ExtractionFailed =>
          /\ pc = "done"
          /\ ~Emitted("processing_complete")
          /\ \A k \in DOMAIN events : events[k].type \notin TranslationTypes \cup SynthesisTypes
          /\ llmCalls = 0
          /\ LastEvent.type = "ocr_error"
    /\ TranslationFailed =>
          /\ pc = "done"
          /\ ~Emitted("processing_complete")
          /\ \A k \in DOMAIN events : events[k].type \notin SynthesisTypes
          /\ \A w \in Items : workerCalls[w] = 0
          /\ LastEvent.type = "translation_error"

C3_Witness == TranslationFailed /\ pc = "done" /\ LastEvent.type = "translation_error"

\* C4: extracted text shorter than 10 characters ends the session with ocr_error;
\* no translation or synthesis stage event is emitted and neither the translation
\* nor the synthesis engine is invoked.
C4_ShortTextStops ==
    (OcrReturned /\ ocrText >= 1 /\ ocrText < 10) =>
        /\ pc = "done"
        /\ LastEvent.type = "ocr_error"
        /\ Count("ocr_error") = 1
        /\ \A k \in DOMAIN events : events[k].type \notin TranslationTypes \cup SynthesisTypes
        /\ llmCalls = 0
        /\ \A w \in Items : engineCalls[w] = 0 /\ workerCalls[w] = 0

C4_Witness == OcrReturned /\ ocrText = 9 /\ LastEvent.type = "ocr_error"

C6_FailureVariant ==
    \A k \in Positions("image_generated") :
        LET w == events[k].item
        IN  IF engineFails[w] = 2
            THEN events[k].url = PlaceholderUrl(menu[w]) /\ events[k].fallback
            ELSE ~events[k].fallback

\* C7: during synthesis at most 2 worker invocations, and so at most 2 synthesis
\* engine calls, are in flight at any time.
C7_BoundedConcurrency ==
    /\ Cardinality(InFlight) <= 2
    /\ Cardinality(EngineInFlight) <= 2

C7_Witness == Cardinality(EngineInFlight) = 2 /\ Len(menu) = 3

\* C8: every translated item's worker is invoked exactly once and returns exactly
\* one result; a worker whose synthesis failed does not keep the other items of
\* its batch or of later batches from being processed.
C8_OneResultPerItem ==
    /\ \A w \in Items : workerCalls[w] <= 1 /\ resultCount[w] <= workerCalls[w]
    /\ \A w \in Items : w > Len(menu) => workerCalls[w] = 0
    /\ \A w \in Items : wpc[w] = "finished" =>
          /\ resultCount[w] = 1
          /\ results[w].item = w
          /\ results[w].url # NoUrl
    /\ (pc = "done" /\ TranslationSucceeded /\ generateImages) =>
          \A w \in 1..Len(menu) : workerCalls[w] = 1 /\ resultCount[w] = 1

C8_Witness ==
    /\ pc = "done" /\ Len(menu) = 3
    /\ engineFails[1] = 2 /\ resultCount[1] = 1
    /\ results[2].url.kind = "generated"
    /\ results[3].url.kind = "generated"

\* C9: no worker of a batch is started, and no generating_image event of the batch
\* is emitted, before the image_generated events of all items of the batch before
\* it have been emitted.
C9_BatchBarrier ==
    /\ \A w \in Items :
          (wpc[w] # "idle" /\ w > 2) =>
              \A v \in 1..(w - 1) :
                  ((v - 1) \div 2 < (w - 1) \div 2) => HasGenerated(v, Len(events))
    /\ \A k \in DOMAIN events :
          (events[k].step = "generating_image" /\ events[k].item > 2) =>
              \A v \in 1..(events[k].item - 1) :
                  ((v - 1) \div 2 < (events[k].item - 1) \div 2) => HasGenerated(v, k - 1)

C9_Witness ==
    /\ Len(menu) = 3 /\ wpc[3] = "cache_wait"
    /\ HasGenerated(1, Len(events)) /\ HasGenerated(2, Len(events))

\* C10: the progress percentages of the image_generation_progress and
\* image_generated events, in emission order, never decrease.
C10_ProgressMonotone ==
    \A j \in DOMAIN events : \A k \in DOMAIN events :
        (/\ j < k
         /\ events[j].type \in {"image_generation_progress", "image_generated"}
         /\ events[k].type \in {"image_generation_progress", "image_generated"})
            => events[j].pct <= events[k].pct

\* C11: when all n items of the menu have been completed, the last progress value
\* emitted during synthesis (image_generation_progress or image_generated) is
\* 100 percent with current = n, in whatever order the workers of the last batch
\* finish.
C11_LastProgressIsFull ==
    (pc = "done" /\ Count("image_generated") >= 1) =>
        LET last == CHOOSE k \in DOMAIN events :
                        /\ events[k].type \in {"image_generation_progress", "image_generated"}
                        /\ \A j \in DOMAIN events :
                               events[j].type \in {"image_generation_progress", "image_generated"}
                                   => j <= k
        IN  events[last].pct = 100 /\ events[last].cur = Len(menu)

\* retryTranslation has returned or thrown
RetryEnded == llmCalls > 0 /\ pc \notin {"llm_wait", "llm_backoff"}

\* C12: an operation that fails m times, m below the wrapper's maximum (3 for
\* retryTranslation, 2 for generateWithFallback), and then succeeds makes the
\* wrapper return that success after exactly m + 1 invocations; the operation is
\* not invoked again after its first success.
C12_RetryUntilSuccess ==
    /\ (RetryEnded /\ llmFailures < 3) =>
          /\ TranslationSucceeded
          /\ Emitted("translation_complete")
    /\ TranslationSucceeded => llmCalls = llmFailures + 1
    /\ \A w \in Items :
          (wpc[w] = "finished" /\ engineFails[w] < 2) =>
              /\ results[w].success
              /\ results[w].url.kind \in {"cached", "stock", "generated"}
              /\ wattempt[w] = engineFails[w] + 1
              /\ engineCalls[w] <= engineFails[w] + 1

C12_Witness ==
    /\ TranslationSucceeded /\ llmFailures = 2 /\ llmCalls = 3
    /\ \E w \in Items :
          /\ wpc[w] = "finished" /\ engineFails[w] = 1 /\ wattempt[w] = 2
          /\ results[w].url.kind = "generated"

\* C13: when every translation attempt fails, translateMenu is invoked exactly 3
\* times and retryTranslation raises the error of the last attempt; the session
\* emits translation_error carrying that error's message, and never emits
\* translation_error after fewer than 3 failed attempts.
C13_RetryExhausted ==
    /\ llmCalls <= 3
    /\ (RetryEnded /\ llmCalls = llmFailures) =>
          /\ llmCalls = 3
          /\ lastError = ErrorOfCall(3)
          /\ LastEvent.type = "translation_error"
          /\ LastEvent.error = ErrorOfCall(3)
          /\ Count("translation_error") = 1
    /\ Emitted("translation_error") => llmFailures = 3 /\ llmCalls = 3

C13_Witness ==
    /\ pc = "done" /\ llmFailures = 3
    /\ LastEvent.type = "translation_error" /\ LastEvent.error = ErrorOfCall(3)

-----------------------------------------------------------------------------
(* Vocabulary of the cache properties *)

\* the words of a name: its maximal runs of letters and digits, lower-cased,
\* characters other than letters, digits and whitespace dropped beforehand
RECURSIVE WordsFrom(_, _, _)
WordsFrom(s, word, acc) ==
    IF s = <<>> THEN (IF word = <<>> THEN acc ELSE Append(acc, word))
    ELSE IF Head(s) \in Whitespace
         THEN WordsFrom(Tail(s), <<>>, IF word = <<>> THEN acc ELSE Append(acc, word))
         ELSE IF Head(s) \in DOMAIN LowerOf
              THEN WordsFrom(Tail(s), Append(word, LowerOf[Head(s)]), acc)
              ELSE IF Head(s) \in LowerLetters \cup Digits
                   THEN WordsFrom(Tail(s), Append(word, Head(s)), acc)
                   ELSE WordsFrom(Tail(s), word, acc)

Words(name) == WordsFrom(name, <<>>, <<>>)

\* two names normalise to the same string
SameNormalizedName(a, b) == Words(a) = Words(b)

KeyApplied == fnCall.fn = "generateCacheKey" /\ fnResult # <<>>
FallbackApplied == fnCall.fn = "getFallbackImage" /\ fnResult # <<>>

\* positions of the table's keywords that are substrings of the lower-cased name
Matching(name) ==
    {k \in DOMAIN commonFoodImages : Includes(toLowerCase(name), commonFoodImages[k].keyword)}

ChickenTikka == <<"c", "h", "i", "c", "k", "e", "n", " ", "t", "i", "k", "k", "a">>
Chicken == <<"c", "h", "i", "c", "k", "e", "n">>

\* caller p's call has returned (or thrown) and its result has not been taken yet
GetReturned(p) == calls[p].pc = "returned" /\ calls[p].op = "get"
SetReturned(p) == calls[p].pc = "returned" /\ calls[p].op = "set"

SevenDaysMs == 7 * 24 * 60 * 60 * 1000

\* C14: two names that normalise to the same string (lower-cased, characters
\* other than a-z, 0-9 and whitespace removed, whitespace collapsed, trimmed) get
\* the same cache key, whatever descriptions are passed with them.
C14_SameNameSameKey ==
    KeyApplied =>
        (SameNormalizedName(fnCall.a, fnCall.b) => fnResult[1] = fnResult[2])

C14_Witness ==
    /\ KeyApplied
    /\ fnCall.a # fnCall.b /\ fnCall.da # fnCall.db
    /\ Len(fnCall.a) = 3 /\ Len(fnCall.b) = 3
    /\ Words(fnCall.a) = << <<"a">>, <<"a">> >>
    /\ SameNormalizedName(fnCall.a, fnCall.b)
    /\ fnResult[1] = fnResult[2]

C16_DeadEntryEvicted ==
    \A p \in Callers :
        GetReturned(p) =>
            /\ calls[p].ret.kind = "entry" =>
                  ~(calls[p].verdict = "dead"
                        /\ calls[p].ret.entry.imageUrl = calls[p].data.imageUrl)
            /\ calls[p].verdict = "dead" =>
                  /\ calls[p].ret.kind = "null"
                  /\ ~RedisGet(calls[p].key).present
                  /\ memoryCache[calls[p].key] = NoEntry
            /\ calls[p].afterDead => calls[p].ret.kind = "null"

\* C17: getCachedImage never throws on a durable-tier failure: with the durable
\* tier disconnected, failing or missing the key, the lookup is answered by the
\* process-local tier under the same TTL and liveness checks, so an entry of the
\* local tier that is within TTL and live is returned.
C17_FallsBackToLocal ==
    \A p \in Callers :
        /\ calls[p].op = "get" => calls[p].ret.kind # "throw"
        /\ (GetReturned(p) /\ calls[p].durable \in {"skipped", "error", "miss"}) =>
              IF calls[p].local = NoEntry
              THEN calls[p].ret.kind = "null"
              ELSE IF DateNow - calls[p].local.generatedAt > SevenDaysMs
                   THEN calls[p].ret.kind = "null" /\ memoryCache[calls[p].key] = NoEntry
                   ELSE IF calls[p].localVerdict = "live"
                        THEN /\ calls[p].ret = [kind |-> "entry", entry |-> calls[p].local]
                             /\ memoryCache[calls[p].key] = calls[p].local
                        ELSE calls[p].ret.kind = "null" /\ memoryCache[calls[p].key] = NoEntry

C17_Witness ==
    /\ GetReturned(1) /\ calls[1].durable = "error"
    /\ calls[1].ret.kind = "entry"
    /\ calls[1].ret.entry.imageUrl = DalleUrl
    /\ now > 0

\* C18: setCachedImage never fails because of the durable tier: with the durable
\* write throwing or the tier disconnected the call completes and the
\* process-local tier holds the new entry under the item's key; a durable write
\* that succeeds stores the entry with an expiry of 604800 seconds.
C18_PutNeverFails ==
    \A p \in Callers :
        /\ calls[p].op = "set" => calls[p].ret.kind # "throw"
        /\ SetReturned(p) =>
              /\ calls[p].ret.kind = "void"
              /\ calls[p].key = generateCacheKey(calls[p].name, <<>>)
              /\ memoryCache[calls[p].key] =
                    CachedImage(calls[p].name, CacheDescription, calls[p].url, DateNow)
              /\ calls[p].durable = "ok" =>
                    /\ redisStore[calls[p].key].present
                    /\ ParseCached(redisStore[calls[p].key].value) = memoryCache[calls[p].key]
                    /\ redisStore[calls[p].key].expireAt - DateNow = 604800 * 1000

C18_Witness ==
    /\ SetReturned(1) /\ calls[1].durable = "error"
    /\ calls[1].ret.kind = "void"
    /\ memoryCache[calls[1].key].imageUrl = calls[1].url
    /\ ~redisStore[calls[1].key].present

\* C19: getFallbackImage returns the mapping of the longest keyword of the table
\* that is a substring of the lower-cased name, and nothing when no keyword
\* matches; "Spicy Chicken Tikka Masala" resolves to the mapping of
\* "chicken tikka", not to that of "chicken".
C19_LongestKeywordWins ==
    FallbackApplied =>
        /\ IF Matching(fnCall.name) = {}
           THEN fnResult[1] = NoImage
           ELSE \E k \in Matching(fnCall.name) :
                   /\ \A j \in Matching(fnCall.name) :
                         Len(commonFoodImages[j].keyword) <= Len(commonFoodImages[k].keyword)
                   /\ fnResult[1] = commonFoodImages[k].image
        /\ fnCall.name = SpicyChickenTikkaMasala =>
              /\ fnResult[1] = ImageOf(ChickenTikka)
              /\ fnResult[1] # ImageOf(Chicken)

C19_Witness ==
    /\ FallbackApplied
    /\ fnCall.name = SpicyChickenTikkaMasala
    /\ fnResult[1] = ImageOf(ChickenTikka)

-----------------------------------------------------------------------------
\* C23: processMenuAsync is fire-and-forget: whatever the extraction, translation,
\* synthesis and cache calls do, its promise resolves and never rejects, and a
\* failed extraction or translation is reported as that stage's error event.
C23_FireAndForget ==
    /\ promise # "rejected"
    /\ pc = "done" => promise = "resolved"
    /\ promise = "resolved" => pc = "done" /\ TerminalCount = 1
    /\ ExtractionFailed => Emitted("ocr_error")
    /\ TranslationFailed => Emitted("translation_error")

C23_Witness ==
    /\ promise = "resolved"
    /\ ocrText = 0 /\ LastEvent.type = "ocr_error"

\* C24: a finished session has emitted, for every stage whose started event it
\* emitted, that stage's complete event or that stage's error event; a synthesis
\* stage that was started and finished has emitted its complete event before
\* processing_complete.
C24_StageCompletes ==
    pc = "done" =>
        /\ Emitted("ocr_started") =>
              Emitted("ocr_complete") \/ Emitted("ocr_error")
        /\ Emitted("translation_started") =>
              Emitted("translation_complete") \/ Emitted("translation_error")
        /\ Emitted("image_generation_started") =>
              \/ Emitted("image_generation_error")
              \/ \E k \in Positions("image_generation_complete") :
                    \A j \in Positions("processing_complete") : k < j

C29_CompleteXorError ==
    /\ ~(Emitted("ocr_complete") /\ Emitted("ocr_error"))
    /\ (OcrReturned /\ ocrText < 10) => ~Emitted("ocr_complete")

\* C30: failed item syntheses, even of every item on every attempt, never cause
\* image_generation_error, translation_error or processing_error and never keep
\* the session from emitting processing_complete.
C30_ItemFailuresContained ==
    /\ ~Emitted("image_generation_error")
    /\ ~Emitted("processing_error")
    /\ (\E w \in Items : engineFails[w] > 0) => ~Emitted("translation_error")
    /\ (pc = "done" /\ \E w \in Items : engineFails[w] > 0) =>
          /\ LastEvent.type = "processing_complete"
          /\ promise = "resolved"

C30_Witness ==
    /\ pc = "done" /\ Len(menu) = 3
    /\ \A w \in 1..3 : engineFails[w] = 2
    /\ LastEvent.type = "processing_complete"
    /\ Count("image_generated") = 3

\* C27: a subscriber that disconnects during the session receives exactly the
\* events emitted before the disconnect and none after it, while the pipeline is
\* never blocked: it goes on emitting, and a finished session has emitted its
\* terminal event and one image_generated per item as with a connected subscriber.
C27_DisconnectIsSilent ==
    /\ [](/\ Len(delivered) <= Len(events)
          /\ delivered = SubSeq(events, 1, Len(delivered))
          /\ connected => delivered = events
          /\ pc # "done" => ENABLED Next
          /\ pc = "done" =>
                /\ TerminalCount = 1
                /\ promise = "resolved"
                /\ (TranslationSucceeded /\ generateImages) =>
                      /\ Count("image_generated") = Len(menu)
                      /\ LastEvent.type = "processing_complete")
    /\ [][~connected => delivered' = delivered]_vars

C27_Witness ==
    /\ pc = "done" /\ ~connected
    /\ Len(delivered) = 2
    /\ LastEvent.type = "processing_complete"
    /\ Count("image_generated") = 3

\* C25: a session that has started always goes on to emit its terminal event,
\* even when one of its external calls never returns.
C25_SessionTerminates == (promise = "pending") ~> (pc = "done" /\ TerminalCount = 1)

\* C26: parseResponse never raises on a malformed response: it returns the parsed
\* items, a best-effort reconstructed item list or a single placeholder item.
C26_MalformedNeverThrows ==
    (fnCall.fn = "parseResponse" /\ fnResult # <<>>) =>
        /\ fnResult[1].kind = "result"
        /\ fnResult[1].via \in {"parse", "clean", "reconstruction", "placeholder"}

\* C22: a getCachedImage for a key whose last setCachedImage completed within the
\* last 7 days, with no eviction of the key since and no probe of this call failing,
\* returns an entry whose imageUrl is the reference of that put, whatever the
\* durable tier's availability was at the put and is at the get.
C22_RoundTrip ==
    \A p \in Callers :
        (/\ GetReturned(p)
         /\ lastPut[calls[p].key].done
         /\ ~lastPut[calls[p].key].evicted
         /\ DateNow - lastPut[calls[p].key].at <= SevenDaysMs
         /\ calls[p].verdict # "dead" /\ calls[p].localVerdict # "dead")
            => /\ calls[p].ret.kind = "entry"
               /\ calls[p].ret.entry.imageUrl = lastPut[calls[p].key].url

\* an entry written to a tier in this step, and an entry removed from it
MemoryWritten(k) == memoryCache'[k] # memoryCache[k] /\ memoryCache'[k] # NoEntry
RedisWritten(k) == redisStore'[k] # redisStore[k] /\ redisStore'[k].present
MemoryRemoved(k) == memoryCache[k] # NoEntry /\ memoryCache'[k] = NoEntry
RedisRemoved(k) == redisStore[k].present /\ ~redisStore'[k].present

\* a getCachedImage call runs in this step
GetRunning == calls[1].op = "get" \/ calls'[1].op = "get"

\* the written entry is the one of the item whose engine call has succeeded, and
\* carries the reference that call returned
EngineWrote(k, entry) ==
    /\ gen'.pc = "store"
    /\ k = generateCacheKey(gen'.name, <<>>)
    /\ entry.imageUrl = gen'.url

\* getCachedImage copies the live entry it read from the durable tier into the
\* process-local tier
MirrorWrote(k) ==
    /\ gen.pc = "lookup"
    /\ calls[1].pc = "redis_probe" /\ calls[1].key = k
    /\ calls'[1].verdict = "live"
    /\ memoryCache'[k] = ParseCached(redisStore[k].value)

\* C21 (as stated): every entry written to either cache tier is written after a
\* successful synthesis engine call and carries the reference that call returned;
\* a cache hit, a keyword-fallback result, a placeholder result and a failed
\* attempt change no tier except by a get removing an entry.
C21_OnlyEngineWrites ==
    [][\A k \in GenKeys :
          /\ MemoryWritten(k) => EngineWrote(k, memoryCache'[k])
          /\ RedisWritten(k) => EngineWrote(k, ParseCached(redisStore'[k].value))
          /\ (MemoryRemoved(k) \/ RedisRemoved(k)) => GetRunning]_vars

\* C21 (amended): every entry written to the durable tier, and every entry written
\* to the process-local tier other than by the read-through of a live durable hit,
\* is written after a successful synthesis engine call and carries the reference
\* that call returned; entries are removed only by get.
C21_OnlyEngineOrMirrorWrites ==
    [][\A k \in GenKeys :
          /\ MemoryWritten(k) => (EngineWrote(k, memoryCache'[k]) \/ MirrorWrote(k))
          /\ RedisWritten(k) => EngineWrote(k, ParseCached(redisStore'[k].value))
          /\ (MemoryRemoved(k) \/ RedisRemoved(k)) => GetRunning]_vars

\* a generated reference is in both tiers, written by the call that has just
\* returned it, after an earlier attempt of the same call failed
C21_Witness ==
    /\ gen.pc = "returned" /\ gen.ret.kind = "generated" /\ gen.attempt = 2
    /\ memoryCache[generateCacheKey(gen.name, <<>>)].imageUrl = gen.ret.imageUrl
    /\ redisStore[generateCacheKey(gen.name, <<>>)].present
    /\ ParseCached(redisStore[generateCacheKey(gen.name, <<>>)].value).imageUrl = gen.ret.imageUrl


\* ceil(n / BATCH_SIZE)
BatchesFor(n) == (n + BATCH_SIZE - 1) \div BATCH_SIZE
\* the k-th consecutive group of BATCH_SIZE indices of a list of n items
ConsecutiveBatch(k, n) ==
    {w \in 1..n : (k - 1) * BATCH_SIZE < w /\ w <= k * BATCH_SIZE}
SynthesisDone == pc = "done" /\ SynthesisRequested(menu) /\ Emitted("processing_complete")

\* C31: the batch loop forms the consecutive groups of 2 items in order; a pacing
\* timer of 500 ms is armed after each batch but the last, so that a finished
\* synthesis stage of n >= 1 items has formed ceil(n/2) batches and made
\* ceil(n/2) - 1 pacing delays.
C31_BatchesAndPacing ==
    /\ \A k \in DOMAIN batches : batches[k] = ConsecutiveBatch(k, Len(menu))
    /\ \A k \in DOMAIN timers.pacing : timers.pacing[k] = 500
    /\ batches # <<>> =>
          Len(timers.pacing) = IF pc = "batch_delay" THEN Len(batches) ELSE Len(batches) - 1
    /\ SynthesisDone =>
          /\ Len(batches) = BatchesFor(Len(menu))
          /\ Len(timers.pacing) = BatchesFor(Len(menu)) - 1

\* three items: two batches, one delay, none after the last batch
C31_Witness ==
    /\ SynthesisDone /\ Len(menu) = 3
    /\ batches = << {1, 2}, {3} >>
    /\ timers.pacing = <<500>>


\* C32: retryTranslation arms a timer of 2 s after its 1st failed attempt and of
\* 4 s after its 2nd, one per failed attempt but the final one: after the 3rd
\* failure it raises without waiting.
C32_BackoffDelays ==
    /\ Len(timers.backoff) = IF llmFailures < 3 THEN llmFailures ELSE 2
    /\ Len(timers.backoff) >= 1 => timers.backoff[1] = 2000
    /\ Len(timers.backoff) >= 2 => timers.backoff[2] = 4000
    /\ pc = "llm_backoff" => Len(timers.backoff) = attempt
    /\ TranslationFailed => pc = "done" /\ timers.backoff = <<2000, 4000>>

\* all three attempts failed: two waits were made, and the error was raised
C32_Witness ==
    /\ llmCalls = 3 /\ llmFailures = 3
    /\ timers.backoff = <<2000, 4000>>
    /\ Emitted("translation_error")


\* C33: the timer generateWithFallback arms after an item's first failed attempt
\* is strictly shorter than the timer retryTranslation arms after its first
\* failed attempt.
C33_ShorterImageDelay ==
    \A w \in Items :
        (timers.retry[w] # <<>> /\ timers.backoff # <<>>)
            => timers.retry[w][1] < timers.backoff[1]


\* C34: the category of an item returned by parseResponse is one of Appetizers,
\* Main Courses, Desserts, Beverages, Sides, Specials, Other, whatever category
\* string the translation engine returned for it.
C34_CategoryInEnumeration ==
    (fnCall.fn = "cleanCategory" /\ fnResult # <<>>) => fnResult[1] \in Categories

\* C36: a session whose translation succeeded without synthesis being requested,
\* or with zero items, ends at once with processing_complete carrying
\* imageGenTime 0 and the number of translated items; it emits no
\* image_generation_started, image_generation_progress or image_generated event,
\* forms no batch and makes no cache or synthesis engine call.
C36_NoSynthesisNoEffects ==
    (TranslationSucceeded /\ (~generateImages \/ Len(menu) = 0)) =>
        /\ pc = "done"
        /\ LastEvent.type = "processing_complete"
        /\ LastEvent.imageGenTime = 0
        /\ LastEvent.n = Len(menu)
        /\ ~Emitted("image_generation_started")
        /\ ~Emitted("image_generation_progress")
        /\ ~Emitted("image_generated")
        /\ batches = <<>> /\ lookupQueue = <<>>
        /\ \A w \in Items : workerCalls[w] = 0 /\ engineCalls[w] = 0 /\ wpc[w] = "idle"

\* two items translated, synthesis not requested
C36_Witness ==
    /\ TranslationSucceeded /\ ~generateImages /\ Len(menu) = 2
    /\ LastEvent.type = "processing_complete" /\ LastEvent.n = 2


\* C38: a terminal event (processing_complete, ocr_error, translation_error,
\* processing_error) is the last event of its session: no event is emitted once
\* one has been; in a successful session with synthesis processing_complete
\* comes after the image_generated event of every item.
C38_TerminalIsLast ==
    /\ [](/\ \A k \in DOMAIN events :
                 events[k].type \in TerminalTypes => k = Len(events)
          /\ (Emitted("processing_complete") /\ SynthesisRequested(menu)) =>
                 /\ Count("image_generated") = Len(menu)
                 /\ \A k \in Positions("image_generated") : k < Len(events))
    /\ [][TerminalCount >= 1 => events' = events]_vars

\* three images, then processing_complete, and the session is over
C38_Witness ==
    /\ pc = "done" /\ LastEvent.type = "processing_complete"
    /\ Count("image_generated") = 3

\* the batch an item belongs to
BatchOfItem(w) == ConsecutiveBatch(((w - 1) \div BATCH_SIZE) + 1, Len(menu))
\* the items of the image_generated events, in emission order
GeneratedItems ==
    [k \in 1..Count("image_generated") |->
        events[CHOOSE q \in Positions("image_generated") :
                  Cardinality({r \in Positions("image_generated") : r <= q}) = k].item]

\* C39: the image_generated events are emitted in the index order of the item
\* list, whatever the order in which the workers finished, and an item's event
\* is emitted only when every worker of its batch has finished.
C39_IndexOrder ==
    /\ \A k \in DOMAIN GeneratedItems : GeneratedItems[k] = k
    /\ \A k \in DOMAIN GeneratedItems :
          \A v \in BatchOfItem(k) : wpc[v] = "finished"

\* the second worker of the first batch finished before the first one
C39_Witness ==
    /\ Count("image_generated") >= 2
    /\ results[1].cur = 2 /\ results[2].cur = 1

\* C40: when every external call settles, a session that has started ends with
\* its one terminal event; translateMenu is called at most 3 times, the synthesis
\* engine at most twice per item, and at most ceil(n/2) batches are formed.
C40_BoundedTermination ==
    /\ [](/\ llmCalls <= 3
          /\ \A w \in Items : engineCalls[w] <= 2
          /\ Len(batches) <= BatchesFor(Len(menu)))
    /\ (pc = "ocr_wait") ~> (pc = "done" /\ TerminalCount = 1)

\* a finished session that used every retry: a translation that succeeded at the
\* third attempt, two batches, and an item whose two engine calls failed
C40_Witness ==
    /\ pc = "done" /\ TerminalCount = 1
    /\ llmCalls = 3 /\ Len(batches) = 2
    /\ \E w \in Items : engineCalls[w] = 2 /\ engineFails[w] = 2

\* no cache call is between two awaits
QuietCache == \A p \in Callers : calls[p].pc \in {"idle", "returned"}

\* C35: with the durable tier available and get / set calls interleaving on one
\* key, whenever no cache call is in flight and both tiers hold an entry for the
\* key, the two entries are the same and carry the reference of the put that
\* completed last.
C35_TiersAgree ==
    QuietCache =>
        \A k \in CacheKeys :
            (memoryCache[k] # NoEntry /\ redisStore[k].present) =>
                /\ memoryCache[k] = ParseCached(redisStore[k].value)
                /\ lastPut[k].done => memoryCache[k].imageUrl = lastPut[k].url

\* C37: a getCachedImage that judged an entry dead removes from a tier only the
\* entry it probed: an entry stored under the key by a setCachedImage while the
\* probe was in flight is not removed.
C37_EvictsOnlyProbedEntry ==
    [][\A p \in Callers :
          /\ (calls[p].pc = "redis_del" /\ RedisRemoved(calls[p].key))
                => ParseCached(redisStore[calls[p].key].value) = calls[p].data
          /\ (calls[p].pc = "redis_del" /\ MemoryRemoved(calls[p].key))
                => memoryCache[calls[p].key] = calls[p].data
          /\ (calls[p].pc = "memory_probe" /\ calls'[p].pc = "returned"
                                           /\ MemoryRemoved(calls[p].key))
                => memoryCache[calls[p].key] = calls[p].local]_vars
====
